---- MODULE Spec2Model ----
(***************************************************************************)
(* FinanciaUNT: the rule-based financial analysis of the dashboard.        *)
(*                                                                         *)
(*   DataValidator, DataAnalyzer, AlertGenerator   (utils/db_helpers.py)   *)
(*   AsesorFinanciero.get_analisis_ia              (app.py)                *)
(*                                                                         *)
(* The functions work on pandas DataFrames.  A DataFrame is a sequence of  *)
(* rows (records), in row order.  Amounts are integers (the smallest       *)
(* currency unit); a quotient the code computes in floating point is kept  *)
(* as an exact fraction, and comparisons against it are cross-multiplied.  *)
(* A date is a day number; the clock runs in half days, so that            *)
(* datetime.now() can fall between two midnights.                          *)
(*                                                                         *)
(* The tables of the database are sequences of rows in the order of their  *)
(* insertion; the managers of app.py read and write them, and the          *)
(* dashboard lists them into the frames it analyses.                       *)
(*                                                                         *)
(* Amounts of transactions are positive, as the creation form enforces     *)
(* (min_value = 0.01).  A budget ceiling is positive or zero: the edit form *)
(* of a budget (app.py, "Monto Maximo") sets no minimum, so a ceiling of 0 *)
(* can be stored.  An exception a call raises is recorded in               *)
(* resultado.excepcion.                                                    *)
(***************************************************************************)
EXTENDS Integers, Sequences, FiniteSets, TLC

VARIABLES
    df_transacciones,   \* the transactions DataFrame the caller holds
    df_presupuestos,    \* the budgets DataFrame the caller holds
    resultado,          \* the last call: its name, its arguments, its return value
    llamadas,           \* the number of calls made so far
    tabla_usuarios,     \* table usuarios: the ids of its rows
    tabla_transacciones, \* table transacciones: its rows, oldest first
    tabla_presupuestos, \* table presupuestos: its rows, oldest first
    tabla_alertas,      \* table alertas: its rows, oldest first
    ultimo_id,          \* the id the database gave to the last row inserted
    otras_tablas,       \* tables analisis_financiero, inversiones and suscripciones:
                        \* for each, the users that have rows in it
    confirmar_eliminar, \* st.session_state.confirmar_eliminar of the session
    mensajes            \* st.session_state.mensajes of the session; <<>> while
                        \* the key is not in the session state

\* the database
tablas == <<tabla_usuarios, tabla_transacciones, tabla_presupuestos,
            tabla_alertas, ultimo_id, otras_tablas>>

\* the session state of the browser session
sesion == <<confirmar_eliminar, mensajes>>

vars == <<df_transacciones, df_presupuestos, resultado, llamadas,
          tabla_usuarios, tabla_transacciones, tabla_presupuestos,
          tabla_alertas, ultimo_id, otras_tablas, confirmar_eliminar, mensajes>>

-----------------------------------------------------------------------------
(* Bounds of the model *)

\* calls made in one run
MaxLlamadas == 2

\* steps of the managers and pages in one run, and rows a table holds
MaxPasos == 4
MaxTabla == 2

\* rows of each frame when every operation may be called
MaxFilasBase == 1

\* rows of the frames handed to verificar_presupuestos
MaxFilasAlerta == 2
MaxPresupuestosAlerta == 2

\* rows of the frames handed to get_analisis_ia
MaxFilasAsesor == 2
MaxPresupuestosAsesor == 2

\* rows of the frame handed to analizar_transacciones
MaxFilasAnalisis == 3

\* rows of the frame handed to detectar_gastos_inusuales
MaxFilasInusuales == 5

\* rows of the frame handed to calcular_tendencia, and the latest day a row has
MaxFilasTendencia == 2
MaxDia == 3
MaxAlertas == 5

-----------------------------------------------------------------------------
(* Values *)

Usuarios == {"u1", "u2"}
Tipos == {"gasto", "ingreso"}

\* pandas sorts the keys of a groupby: the categories in that order
CategoriasOrdenadas == <<"Alimentacion", "Transporte">>
Categorias == {CategoriasOrdenadas[i] : i \in DOMAIN CategoriasOrdenadas}

\* the tables of the database that the managers modelled here never write
OtrasTablas == {"analisis_financiero", "inversiones", "suscripciones"}

\* a date as the table stores it ('YYYY-MM-DD') on day d
FechaStr(d) == [forma |-> "str", dia |-> d]

Fila(u, t, c, m, f) ==
    [usuario_id |-> u, tipo |-> t, categoria |-> c, monto |-> m, fecha |-> f,
     descripcion |-> "compra"]

Presupuesto(u, c, m) ==
    [usuario_id |-> u, categoria |-> c, monto_maximo |-> m]

\* every sequence over S of length at most n
SeqHasta(S, n) == UNION {[1..k -> S] : k \in 0..n}

\* the database when the functions are called on frames of their own: the
\* users registered, and no row in the other tables
BaseVacia ==
    /\ tabla_usuarios = Usuarios
    /\ tabla_transacciones = <<>>
    /\ tabla_presupuestos = <<>>
    /\ tabla_alertas = <<>>
    /\ ultimo_id = 0
    /\ otras_tablas = [t \in OtrasTablas |-> {}]

\* the session state of a session that has just begun: neither key is set
SesionNueva ==
    /\ confirmar_eliminar = FALSE
    /\ mensajes = <<>>

-----------------------------------------------------------------------------
(* pandas helpers *)

RECURSIVE SumaMontos(_)
\* Series.sum() of the 'monto' column; 0 for an empty selection
SumaMontos(filas) ==
    IF filas = <<>> THEN 0
    ELSE Head(filas).monto + SumaMontos(Tail(filas))

EsGasto(r) == r.tipo = "gasto"
EsIngreso(r) == r.tipo = "ingreso"

DeCategoria(filas, c) == SelectSeq(filas, LAMBDA r : r.categoria = c)

RECURSIVE GrupoDesde(_, _)
GrupoDesde(filas, k) ==
    IF k > Len(CategoriasOrdenadas) THEN <<>>
    ELSE LET c == CategoriasOrdenadas[k]
             g == DeCategoria(filas, c)
         IN (IF g = <<>> THEN <<>>
             ELSE <<[categoria |-> c, monto |-> SumaMontos(g)]>>)
            \o GrupoDesde(filas, k + 1)

\* filas.groupby('categoria')['monto'].sum(): one entry per category that
\* has a row, in sorted key order
GroupBySum(filas) == GrupoDesde(filas, 1)

\* categoria in serie.index
EnIndice(serie, c) == \E i \in DOMAIN serie : serie[i].categoria = c

\* serie[categoria]
ValorDe(serie, c) ==
    LET i == CHOOSE j \in DOMAIN serie : serie[j].categoria = c
    IN serie[i].monto

-----------------------------------------------------------------------------
(* Floating point quotients *)

\* (a / b) * 100 with numpy scalars: a fraction, or inf / -inf / nan when b = 0
Porcentaje(a, b) ==
    IF b = 0
    THEN [clase |-> (IF a > 0 THEN "inf" ELSE IF a < 0 THEN "-inf" ELSE "nan"),
          num |-> 0, den |-> 1]
    ELSE IF b > 0 THEN [clase |-> "fin", num |-> a * 100, den |-> b]
    ELSE [clase |-> "fin", num |-> (0 - a) * 100, den |-> 0 - b]

\* p > k
PctMayor(p, k) ==
    \/ p.clase = "inf"
    \/ p.clase = "fin" /\ p.num > k * p.den

\* p >= k
PctMayorIgual(p, k) ==
    \/ p.clase = "inf"
    \/ p.clase = "fin" /\ p.num >= k * p.den

\* p < k
PctMenor(p, k) ==
    \/ p.clase = "-inf"
    \/ p.clase = "fin" /\ p.num < k * p.den

\* n / d (d > 0) rounded to the nearest integer, ties to even
Redondear(n, d) ==
    LET q == n \div d
        r == n % d
    IN IF 2 * r < d THEN q
       ELSE IF 2 * r > d THEN q + 1
       ELSE IF q % 2 = 0 THEN q ELSE q + 1

\* f"{p:.1f}": the percentage in tenths, or the text Python prints for inf / nan
Formato1(p) ==
    IF p.clase = "fin"
    THEN [texto |-> "numero", decimas |-> Redondear(p.num * 10, p.den)]
    ELSE [texto |-> p.clase, decimas |-> 0]

-----------------------------------------------------------------------------
(* AlertGenerator.verificar_presupuestos *)

\* the two tests in the other order, as the advisor's budget rule has them
AlertaDePresupuesto_cerca_primero(presupuesto, gastos_por_categoria) ==
    LET categoria == presupuesto.categoria
        limite == presupuesto.monto_maximo
    IN IF ~ EnIndice(gastos_por_categoria, categoria) THEN <<>>
       ELSE
         LET gasto_actual == ValorDe(gastos_por_categoria, categoria)
             porcentaje == Porcentaje(gasto_actual, limite)
         IN IF PctMayorIgual(porcentaje, 80)
            THEN << [tipo |-> "presupuesto_cerca_limite",
                     severidad |-> "media",
                     mensaje |-> [categoria |-> categoria,
                                  monto |-> gasto_actual,
                                  porcentaje |-> Formato1(porcentaje)],
                     categoria |-> categoria,
                     gasto_actual |-> gasto_actual,
                     limite |-> limite] >>
            ELSE IF gasto_actual > limite
            THEN << [tipo |-> "presupuesto_excedido",
                     severidad |-> "alta",
                     mensaje |-> [categoria |-> categoria,
                                  monto |-> gasto_actual - limite,
                                  porcentaje |-> Formato1(porcentaje)],
                     categoria |-> categoria,
                     gasto_actual |-> gasto_actual,
                     limite |-> limite] >>
            ELSE <<>>

\* the near-limit test strict: porcentaje > 80
AlertaDePresupuesto_estricto(presupuesto, gastos_por_categoria) ==
    LET categoria == presupuesto.categoria
        limite == presupuesto.monto_maximo
    IN IF ~ EnIndice(gastos_por_categoria, categoria) THEN <<>>
       ELSE
         LET gasto_actual == ValorDe(gastos_por_categoria, categoria)
             porcentaje == Porcentaje(gasto_actual, limite)
         IN IF gasto_actual > limite
            THEN << [tipo |-> "presupuesto_excedido",
                     severidad |-> "alta",
                     mensaje |-> [categoria |-> categoria,
                                  monto |-> gasto_actual - limite,
                                  porcentaje |-> Formato1(porcentaje)],
                     categoria |-> categoria,
                     gasto_actual |-> gasto_actual,
                     limite |-> limite] >>
            ELSE IF PctMayor(porcentaje, 80)
            THEN << [tipo |-> "presupuesto_cerca_limite",
                     severidad |-> "media",
                     mensaje |-> [categoria |-> categoria,
                                  monto |-> gasto_actual,
                                  porcentaje |-> Formato1(porcentaje)],
                     categoria |-> categoria,
                     gasto_actual |-> gasto_actual,
                     limite |-> limite] >>
            ELSE <<>>

\* two tests in a row instead of if / elif: a row over its ceiling gets both
AlertaDePresupuesto_ambas(presupuesto, gastos_por_categoria) ==
    LET categoria == presupuesto.categoria
        limite == presupuesto.monto_maximo
    IN IF ~ EnIndice(gastos_por_categoria, categoria) THEN <<>>
       ELSE
         LET gasto_actual == ValorDe(gastos_por_categoria, categoria)
             porcentaje == Porcentaje(gasto_actual, limite)
         IN (IF gasto_actual > limite
             THEN << [tipo |-> "presupuesto_excedido",
                      severidad |-> "alta",
                      mensaje |-> [categoria |-> categoria,
                                   monto |-> gasto_actual - limite,
                                   porcentaje |-> Formato1(porcentaje)],
                      categoria |-> categoria,
                      gasto_actual |-> gasto_actual,
                      limite |-> limite] >>
             ELSE <<>>)
            \o
            (IF PctMayorIgual(porcentaje, 80)
             THEN << [tipo |-> "presupuesto_cerca_limite",
                      severidad |-> "media",
                      mensaje |-> [categoria |-> categoria,
                                   monto |-> gasto_actual,
                                   porcentaje |-> Formato1(porcentaje)],
                      categoria |-> categoria,
                      gasto_actual |-> gasto_actual,
                      limite |-> limite] >>
             ELSE <<>>)

\* the body of the loop over presupuestos_usuario: the alerts of one budget row
AlertaDePresupuesto(presupuesto, gastos_por_categoria) ==
    LET categoria == presupuesto.categoria
        limite == presupuesto.monto_maximo
    IN IF ~ EnIndice(gastos_por_categoria, categoria) THEN <<>>
       ELSE
         LET gasto_actual == ValorDe(gastos_por_categoria, categoria)
             porcentaje == Porcentaje(gasto_actual, limite)
         IN IF gasto_actual > limite
            THEN << [tipo |-> "presupuesto_excedido",
                     severidad |-> "alta",
                     mensaje |-> [categoria |-> categoria,
                                  monto |-> gasto_actual - limite,
                                  porcentaje |-> Formato1(porcentaje)],
                     categoria |-> categoria,
                     gasto_actual |-> gasto_actual,
                     limite |-> limite] >>
            ELSE IF PctMayorIgual(porcentaje, 80)
            THEN << [tipo |-> "presupuesto_cerca_limite",
                     severidad |-> "media",
                     mensaje |-> [categoria |-> categoria,
                                  monto |-> gasto_actual,
                                  porcentaje |-> Formato1(porcentaje)],
                     categoria |-> categoria,
                     gasto_actual |-> gasto_actual,
                     limite |-> limite] >>
            ELSE <<>>

RECURSIVE AlertasDePresupuestos(_, _)
AlertasDePresupuestos(presupuestos_usuario, gastos_por_categoria) ==
    IF presupuestos_usuario = <<>> THEN <<>>
    ELSE AlertaDePresupuesto(Head(presupuestos_usuario), gastos_por_categoria)
         \o AlertasDePresupuestos(Tail(presupuestos_usuario), gastos_por_categoria)

\* the expenses summed over the rows of every user
verificar_presupuestos_sin_usuario(transacciones, presupuestos, usuario_id) ==
    IF transacciones = <<>> \/ presupuestos = <<>> THEN <<>>
    ELSE
      LET gastos_usuario == SelectSeq(transacciones, EsGasto)
      IN IF gastos_usuario = <<>> THEN <<>>
         ELSE
           LET gastos_por_categoria == GroupBySum(gastos_usuario)
               presupuestos_usuario ==
                   SelectSeq(presupuestos, LAMBDA p : p.usuario_id = usuario_id)
           IN AlertasDePresupuestos(presupuestos_usuario, gastos_por_categoria)

verificar_presupuestos(transacciones, presupuestos, usuario_id) ==
    IF transacciones = <<>> \/ presupuestos = <<>> THEN <<>>
    ELSE
      LET gastos_usuario ==
              SelectSeq(transacciones,
                        LAMBDA r : r.usuario_id = usuario_id /\ EsGasto(r))
      IN IF gastos_usuario = <<>> THEN <<>>
         ELSE
           LET gastos_por_categoria == GroupBySum(gastos_usuario)
               presupuestos_usuario ==
                   SelectSeq(presupuestos, LAMBDA p : p.usuario_id = usuario_id)
           IN AlertasDePresupuestos(presupuestos_usuario, gastos_por_categoria)

\* a call of AlertGenerator.verificar_presupuestos on the frames held
VerificarPresupuestos ==
    \E u \in Usuarios :
        /\ llamadas < MaxLlamadas
        /\ llamadas' = llamadas + 1
        /\ UNCHANGED <<tablas, sesion>>
        /\ resultado' = [op |-> "verificar_presupuestos",
                         excepcion |-> "ninguna",
                         usuario_id |-> u,
                         ret |-> verificar_presupuestos(df_transacciones,
                                                        df_presupuestos, u)]
        /\ UNCHANGED <<df_transacciones, df_presupuestos>>

-----------------------------------------------------------------------------
(* AsesorFinanciero.get_analisis_ia *)

Cero == [clase |-> "fin", num |-> 0, den |-> 1]

\* a float the code gets by multiplying an amount by a decimal literal n / 100
Centesimas(a, n) == [clase |-> "fin", num |-> a * n, den |-> 100]

\* Series.sum() of a grouped series
SumaSerie(serie) == SumaMontos(serie)

RECURSIVE MaximoSerie(_)
\* Series.max() of a non-empty series
MaximoSerie(serie) ==
    IF Len(serie) = 1 THEN serie[1].monto
    ELSE LET m == MaximoSerie(Tail(serie))
         IN IF serie[1].monto >= m THEN serie[1].monto ELSE m

\* the label of the last entry that holds the maximum
IdxMax_ultimo(serie) ==
    LET i == CHOOSE j \in DOMAIN serie :
                 /\ serie[j].monto = MaximoSerie(serie)
                 /\ \A k \in (j + 1)..Len(serie) : serie[k].monto # MaximoSerie(serie)
    IN serie[i].categoria

\* Series.idxmax(): the label of the first entry, in the order of the series,
\* that holds the maximum
IdxMax(serie) ==
    LET i == CHOOSE j \in DOMAIN serie :
                 /\ serie[j].monto = MaximoSerie(serie)
                 /\ \A k \in 1..(j - 1) : serie[k].monto # MaximoSerie(serie)
    IN serie[i].categoria

\* presupuestos.set_index('categoria')['monto_maximo'].to_dict(): of several rows
\* of one category the last one stays
EnDict(presupuestos, c) == \E i \in DOMAIN presupuestos : presupuestos[i].categoria = c

DictValor(presupuestos, c) ==
    LET i == CHOOSE j \in DOMAIN presupuestos :
                 /\ presupuestos[j].categoria = c
                 /\ \A k \in (j + 1)..Len(presupuestos) : presupuestos[k].categoria # c
    IN presupuestos[i].monto_maximo

Recomendacion(t, c) == [texto |-> t, categoria |-> c]

\* the alert strings of one category: gasto and presupuesto are Python floats
\* here, so the caller has excluded presupuesto = 0
AlertaDeCategoria(categoria, gasto, presupuesto) ==
    LET porcentaje == Porcentaje(gasto, presupuesto)
    IN IF PctMayor(porcentaje, 90)
       THEN << [texto |-> "Gastos en {categoria} al {porcentaje}% del presupuesto",
                categoria |-> categoria,
                porcentaje |-> Formato1(porcentaje)] >>
       ELSE IF PctMayor(porcentaje, 100)
       THEN << [texto |-> "Presupuesto excedido en {categoria}! ({porcentaje}%)",
                categoria |-> categoria,
                porcentaje |-> Formato1(porcentaje)] >>
       ELSE <<>>

RECURSIVE AlertasDeCategorias(_, _)
\* the loop over gastos_por_categoria.items()
AlertasDeCategorias(gastos_por_categoria, presupuestos) ==
    IF gastos_por_categoria = <<>> THEN <<>>
    ELSE LET categoria == Head(gastos_por_categoria).categoria
             gasto == Head(gastos_por_categoria).monto
         IN (IF EnDict(presupuestos, categoria)
             THEN AlertaDeCategoria(categoria, gasto, DictValor(presupuestos, categoria))
             ELSE <<>>)
            \o AlertasDeCategorias(Tail(gastos_por_categoria), presupuestos)

\* gasto / presupuesto divides two Python floats: a zero presupuesto of a
\* category that has expenses raises ZeroDivisionError
DivisionPorCero(gastos_por_categoria, presupuestos) ==
    \E i \in DOMAIN gastos_por_categoria :
        /\ EnDict(presupuestos, gastos_por_categoria[i].categoria)
        /\ DictValor(presupuestos, gastos_por_categoria[i].categoria) = 0

SinAnalisis == [resumen |-> [total_ingresos |-> 0, total_gastos |-> 0,
                             ahorro_neto |-> 0, tasa_ahorro |-> Cero],
                recomendaciones |-> <<>>,
                alertas |-> <<>>,
                predicciones |-> [ahorro_3_meses |-> Cero, proyeccion_gastos |-> Cero]]

\* the value returned for a frame that has rows
AnalisisConDatos(transacciones, presupuestos) ==
      LET gastos_por_categoria == GroupBySum(SelectSeq(transacciones, EsGasto))
          total_gastos == SumaSerie(gastos_por_categoria)
          total_ingresos == SumaMontos(SelectSeq(transacciones, EsIngreso))
          alertas == IF presupuestos # <<>>
                     THEN AlertasDeCategorias(gastos_por_categoria, presupuestos)
                     ELSE <<>>
          tasa_ahorro == Porcentaje(total_ingresos - total_gastos, total_ingresos)
          rec_ahorro ==
              IF total_ingresos > 0
              THEN IF PctMenor(tasa_ahorro, 10)
                   THEN << Recomendacion("Considera aumentar tu tasa de ahorro al menos al 10% de tus ingresos", "") >>
                   ELSE IF PctMayor(tasa_ahorro, 30)
                   THEN << Recomendacion("Excelente! Estas ahorrando mas del 30% de tus ingresos", "") >>
                   ELSE <<>>
              ELSE <<>>
          rec_mayor ==
              IF gastos_por_categoria # <<>>
              THEN << Recomendacion("Tu mayor gasto es en {categoria_mayor}. Revisa si puedes optimizarlo",
                                    IdxMax(gastos_por_categoria)) >>
              ELSE <<>>
          recomendaciones == rec_ahorro \o rec_mayor
      IN [resumen |->
              [total_ingresos |-> total_ingresos,
               total_gastos |-> total_gastos,
               ahorro_neto |-> total_ingresos - total_gastos,
               tasa_ahorro |-> IF total_ingresos > 0
                               THEN Porcentaje(total_ingresos - total_gastos, total_ingresos)
                               ELSE Cero],
          recomendaciones |->
              IF recomendaciones # <<>> THEN recomendaciones
              ELSE << Recomendacion("Continua registrando tus transacciones para mejores analisis", "") >>,
          alertas |-> alertas,
          predicciones |->
              [ahorro_3_meses |-> Centesimas((total_ingresos - total_gastos) * 3, 105),
               proyeccion_gastos |-> Centesimas(total_gastos, 102)]]

\* without the early return for an empty frame
get_analisis_ia_sin_vacio(transacciones, presupuestos) ==
    AnalisisConDatos(transacciones, presupuestos)

\* the value get_analisis_ia returns, when it returns
get_analisis_ia(transacciones, presupuestos) ==
    IF transacciones = <<>>
    THEN [resumen |-> [total_ingresos |-> 0, total_gastos |-> 0,
                       ahorro_neto |-> 0, tasa_ahorro |-> Cero],
          recomendaciones |->
              << Recomendacion("No hay suficientes datos para generar recomendaciones", "") >>,
          alertas |-> <<>>,
          predicciones |-> [ahorro_3_meses |-> Cero, proyeccion_gastos |-> Cero]]
    ELSE AnalisisConDatos(transacciones, presupuestos)

\* whether the call raises: only the budget loop of a non-empty call divides
\* without a guard
get_analisis_ia_excepcion(transacciones, presupuestos) ==
    IF /\ transacciones # <<>>
       /\ presupuestos # <<>>
       /\ DivisionPorCero(GroupBySum(SelectSeq(transacciones, EsGasto)), presupuestos)
    THEN "ZeroDivisionError"
    ELSE "ninguna"

\* a call that keeps what the last call returned and adds to it
GetAnalisisIA_acumula ==
    LET e == get_analisis_ia_excepcion(df_transacciones, df_presupuestos)
        r == get_analisis_ia(df_transacciones, df_presupuestos)
    IN /\ llamadas < MaxLlamadas
       /\ llamadas' = llamadas + 1
       /\ UNCHANGED <<tablas, sesion>>
       /\ resultado' =
            [op |-> "get_analisis_ia",
             excepcion |-> e,
             ret |-> IF e # "ninguna" THEN SinAnalisis
                     ELSE IF resultado.op = "get_analisis_ia"
                     THEN [r EXCEPT !.recomendaciones =
                                       resultado.ret.recomendaciones \o @]
                     ELSE r]
       /\ UNCHANGED <<df_transacciones, df_presupuestos>>

\* a call of AsesorFinanciero.get_analisis_ia on the frames held
GetAnalisisIA ==
    LET e == get_analisis_ia_excepcion(df_transacciones, df_presupuestos)
    IN /\ llamadas < MaxLlamadas
       /\ llamadas' = llamadas + 1
       /\ UNCHANGED <<tablas, sesion>>
       /\ resultado' =
            [op |-> "get_analisis_ia",
             excepcion |-> e,
             ret |-> IF e # "ninguna" THEN SinAnalisis
                     ELSE get_analisis_ia(df_transacciones, df_presupuestos)]
       /\ UNCHANGED <<df_transacciones, df_presupuestos>>

-----------------------------------------------------------------------------
(* DataValidator *)

\* A text is the sequence of its characters.  A date text is given by the
\* shape it has and the numbers it holds: "Y-m-d" for digits-digits-digits,
\* the shape '%Y-%m-%d' matches.
Texto(forma, anio, mes, dia) == [forma |-> forma, anio |-> anio, mes |-> mes, dia |-> dia]

Bisiesto(anio) == anio % 4 = 0 /\ (anio % 100 # 0 \/ anio % 400 = 0)

DiasDelMes(anio, mes) ==
    IF mes = 2 THEN (IF Bisiesto(anio) THEN 29 ELSE 28)
    ELSE IF mes \in {4, 6, 9, 11} THEN 30 ELSE 31

validar_monto(monto) == monto > 0

\* datetime.strptime(fecha, '%Y-%m-%d') raises ValueError unless the text has
\* the shape and names a day of the calendar
validar_fecha(fecha) ==
    /\ fecha.forma = "Y-m-d"
    /\ fecha.anio \in 1..9999
    /\ fecha.mes \in 1..12
    /\ fecha.dia \in 1..DiasDelMes(fecha.anio, fecha.mes)

Si(condicion, error) == IF condicion THEN <<error>> ELSE <<>>

\* the tests chained with elif: only the first violated rule is reported
validar_transaccion_elif(monto, categoria, descripcion, fecha, tipo) ==
    LET errores ==
            IF ~ validar_monto(monto) THEN <<"El monto debe ser mayor a 0">>
            ELSE IF categoria = <<>> \/ Len(categoria) < 2 THEN <<"Categoria invalida">>
            ELSE IF descripcion = <<>> \/ Len(descripcion) < 3
            THEN <<"Descripcion muy corta (minimo 3 caracteres)">>
            ELSE IF ~ validar_fecha(fecha) THEN <<"Fecha invalida (formato: YYYY-MM-DD)">>
            ELSE IF tipo \notin {"ingreso", "gasto"}
            THEN <<"Tipo debe ser 'ingreso' o 'gasto'">>
            ELSE <<>>
    IN [valido |-> Len(errores) = 0, errores |-> errores]

validar_transaccion(monto, categoria, descripcion, fecha, tipo) ==
    LET errores ==
            Si(~ validar_monto(monto), "El monto debe ser mayor a 0")
            \o Si(categoria = <<>> \/ Len(categoria) < 2, "Categoria invalida")
            \o Si(descripcion = <<>> \/ Len(descripcion) < 3,
                  "Descripcion muy corta (minimo 3 caracteres)")
            \o Si(~ validar_fecha(fecha), "Fecha invalida (formato: YYYY-MM-DD)")
            \o Si(tipo \notin {"ingreso", "gasto"}, "Tipo debe ser 'ingreso' o 'gasto'")
    IN [valido |-> Len(errores) = 0, errores |-> errores]

\* the arguments of the calls
MontosValidar == {0 - 5, 0, 5}
CategoriasValidar == {<<>>, <<"F">>, <<"F", "o", "o", "d">>}
DescripcionesValidar == {<<>>, <<"l", "u">>, <<"l", "u", "n", "c", "h">>}
FechasValidar ==
    {Texto("Y-m-d", 2024, 1, 15),      \* 2024-01-15
     Texto("Y-m-d", 2024, 2, 29),      \* 2024-02-29
     Texto("Y-m-d", 2023, 2, 29),      \* 2023-02-29
     Texto("Y-m-d", 2024, 13, 1),      \* 2024-13-01
     Texto("d/m/Y", 2024, 1, 15)}      \* 15/01/2024
TiposValidar == {"ingreso", "gasto", "transferencia"}

ValidarTransaccion ==
    \E monto \in MontosValidar, categoria \in CategoriasValidar,
       descripcion \in DescripcionesValidar, fecha \in FechasValidar,
       tipo \in TiposValidar :
        /\ llamadas < MaxLlamadas
        /\ llamadas' = llamadas + 1
        /\ UNCHANGED <<tablas, sesion>>
        /\ resultado' = [op |-> "validar_transaccion",
                         excepcion |-> "ninguna",
                         monto |-> monto,
                         categoria |-> categoria,
                         descripcion |-> descripcion,
                         fecha |-> fecha,
                         tipo |-> tipo,
                         ret |-> validar_transaccion(monto, categoria, descripcion,
                                                     fecha, tipo)]
        /\ UNCHANGED <<df_transacciones, df_presupuestos>>

-----------------------------------------------------------------------------
(* DataAnalyzer.analizar_transacciones *)

\* Series.mean() of n > 0 amounts
Media(filas) == [clase |-> "fin", num |-> SumaMontos(filas), den |-> Len(filas)]

\* balance with the wrong sign on the expenses
analizar_transacciones_suma(df) ==
    IF df = <<>>
    THEN [total_transacciones |-> 0, total_ingresos |-> 0, total_gastos |-> 0,
          balance |-> 0, promedio_gasto |-> Cero, categoria_mas_gasto |-> "None"]
    ELSE
      LET ingresos == SumaMontos(SelectSeq(df, EsIngreso))
          gastos == SumaMontos(SelectSeq(df, EsGasto))
          gastos_por_categoria == GroupBySum(SelectSeq(df, EsGasto))
      IN [total_transacciones |-> Len(df),
          total_ingresos |-> ingresos,
          total_gastos |-> gastos,
          balance |-> ingresos + gastos,
          promedio_gasto |-> IF Len(SelectSeq(df, EsGasto)) > 0
                             THEN Media(SelectSeq(df, EsGasto)) ELSE Cero,
          categoria_mas_gasto |-> IF gastos_por_categoria # <<>>
                                  THEN IdxMax(gastos_por_categoria) ELSE "None",
          monto_categoria_max |-> IF gastos_por_categoria # <<>>
                                  THEN MaximoSerie(gastos_por_categoria) ELSE 0]

\* the dict returned; the one of an empty frame has no monto_categoria_max
analizar_transacciones(df) ==
    IF df = <<>>
    THEN [total_transacciones |-> 0, total_ingresos |-> 0, total_gastos |-> 0,
          balance |-> 0, promedio_gasto |-> Cero, categoria_mas_gasto |-> "None"]
    ELSE
      LET ingresos == SumaMontos(SelectSeq(df, EsIngreso))
          gastos == SumaMontos(SelectSeq(df, EsGasto))
          gastos_por_categoria == GroupBySum(SelectSeq(df, EsGasto))
      IN [total_transacciones |-> Len(df),
          total_ingresos |-> ingresos,
          total_gastos |-> gastos,
          balance |-> ingresos - gastos,
          promedio_gasto |-> IF Len(SelectSeq(df, EsGasto)) > 0
                             THEN Media(SelectSeq(df, EsGasto)) ELSE Cero,
          categoria_mas_gasto |-> IF gastos_por_categoria # <<>>
                                  THEN IdxMax(gastos_por_categoria) ELSE "None",
          monto_categoria_max |-> IF gastos_por_categoria # <<>>
                                  THEN MaximoSerie(gastos_por_categoria) ELSE 0]

AnalizarTransacciones ==
    /\ llamadas < MaxLlamadas
    /\ llamadas' = llamadas + 1
    /\ UNCHANGED <<tablas, sesion>>
    /\ resultado' = [op |-> "analizar_transacciones",
                     excepcion |-> "ninguna",
                     ret |-> analizar_transacciones(df_transacciones)]
    /\ UNCHANGED <<df_transacciones, df_presupuestos>>

-----------------------------------------------------------------------------
(* DataAnalyzer.detectar_gastos_inusuales *)

RECURSIVE SumaCuadrados(_)
SumaCuadrados(filas) ==
    IF filas = <<>> THEN 0
    ELSE Head(filas).monto * Head(filas).monto + SumaCuadrados(Tail(filas))

\* x > mean + umbral * std over the amounts of gastos, for umbral >= 0.
\* std is the sample deviation (ddof = 1), NaN for a single amount, and a
\* comparison with NaN is false.  With n amounts of sum S and square sum Q:
\*   mean = S / n,  std^2 = (n Q - S^2) / (n (n - 1)),
\* so x - mean > umbral * std  iff  n x > S and
\*   (n x - S)^2 (n - 1) > umbral^2 n (n Q - S^2).
SobreUmbral(x, gastos, umbral) ==
    LET n == Len(gastos)
        S == SumaMontos(gastos)
        Q == SumaCuadrados(gastos)
    IN /\ n > 1
       /\ n * x > S
       /\ (n * x - S) * (n * x - S) * (n - 1) > umbral * umbral * n * (n * Q - S * S)

\* the threshold taken as mean + std, whatever umbral_desviacion is
detectar_gastos_inusuales_sin_umbral(df, umbral_desviacion) ==
    LET gastos == SelectSeq(df, EsGasto)
    IN IF gastos = <<>> THEN <<>>
       ELSE SelectSeq(gastos, LAMBDA r : SobreUmbral(r.monto, gastos, 1))

\* mean and std taken over the amounts of every row, income included
detectar_gastos_inusuales_con_ingresos(df, umbral_desviacion) ==
    LET gastos == SelectSeq(df, EsGasto)
    IN IF gastos = <<>> THEN <<>>
       ELSE SelectSeq(gastos,
                      LAMBDA r : SobreUmbral(r.monto, df, umbral_desviacion))

\* the rows returned
detectar_gastos_inusuales(df, umbral_desviacion) ==
    LET gastos == SelectSeq(df, EsGasto)
    IN IF gastos = <<>> THEN <<>>
       ELSE SelectSeq(gastos,
                      LAMBDA r : SobreUmbral(r.monto, gastos, umbral_desviacion))

Umbrales == {1, 2}

DetectarGastosInusuales ==
    \E umbral \in Umbrales :
        /\ llamadas < MaxLlamadas
        /\ llamadas' = llamadas + 1
        /\ UNCHANGED <<tablas, sesion>>
        /\ resultado' = [op |-> "detectar_gastos_inusuales",
                         excepcion |-> "ninguna",
                         umbral_desviacion |-> umbral,
                         ret |-> detectar_gastos_inusuales(df_transacciones, umbral)]
        /\ UNCHANGED <<df_transacciones, df_presupuestos>>

-----------------------------------------------------------------------------
(* AlertGenerator.detectar_patrones_inusuales *)

RECURSIVE AlertasDeGastos(_)
\* the loop over gastos_inusuales.iterrows(): one alert per row
AlertasDeGastos(gastos_inusuales) ==
    IF gastos_inusuales = <<>> THEN <<>>
    ELSE LET gasto == Head(gastos_inusuales)
         IN << [tipo |-> "gasto_inusual",
                severidad |-> "media",
                mensaje |-> [monto |-> gasto.monto,
                             categoria |-> gasto.categoria,
                             descripcion |-> gasto.descripcion],
                monto |-> gasto.monto,
                categoria |-> gasto.categoria] >>
            \o AlertasDeGastos(Tail(gastos_inusuales))

\* detectar_gastos_inusuales is called with its default umbral_desviacion
UmbralPorDefecto == 2

detectar_patrones_inusuales(df) ==
    AlertasDeGastos(detectar_gastos_inusuales(df, UmbralPorDefecto))

DetectarPatronesInusuales ==
    /\ llamadas < MaxLlamadas
    /\ llamadas' = llamadas + 1
    /\ UNCHANGED <<tablas, sesion>>
    /\ resultado' = [op |-> "detectar_patrones_inusuales",
                     excepcion |-> "ninguna",
                     ret |-> detectar_patrones_inusuales(df_transacciones)]
    /\ UNCHANGED <<df_transacciones, df_presupuestos>>

-----------------------------------------------------------------------------
(* DataAnalyzer.calcular_tendencia *)

\* a midnight, and a number of days, in half days
Instante(dia) == 2 * dia
Timedelta(dias) == 2 * dias

\* pd.to_datetime of the 'fecha' column: every date becomes a Timestamp
ADatetime(df) == [i \in DOMAIN df |-> [df[i] EXCEPT !.fecha.forma = "datetime"]]

\* creciente from 10 on, not only above it
Tendencia_desde_diez(df, dias, ahora) ==
    LET fecha_limite == ahora - Timedelta(dias)
        fecha_mitad == ahora - Timedelta(dias \div 2)
        primera_mitad ==
            SumaMontos(SelectSeq(df, LAMBDA r :
                /\ Instante(r.fecha.dia) >= fecha_limite
                /\ Instante(r.fecha.dia) < fecha_mitad
                /\ EsGasto(r)))
        segunda_mitad ==
            SumaMontos(SelectSeq(df, LAMBDA r :
                /\ Instante(r.fecha.dia) >= fecha_mitad
                /\ EsGasto(r)))
        variacion == Porcentaje(segunda_mitad - primera_mitad, primera_mitad)
    IN IF primera_mitad = 0
       THEN [tendencia |-> "sin_datos", variacion_porcentual |-> 0]
       ELSE [tendencia |-> IF PctMayorIgual(variacion, 10) THEN "creciente"
                           ELSE IF PctMenor(variacion, 0 - 10) THEN "decreciente"
                           ELSE "estable",
             variacion_porcentual |-> Redondear(variacion.num * 100, variacion.den),
             gasto_periodo_1 |-> primera_mitad,
             gasto_periodo_2 |-> segunda_mitad]

\* the dict returned for a non-empty frame whose dates are Timestamps
Tendencia(df, dias, ahora) ==
    LET fecha_limite == ahora - Timedelta(dias)
        fecha_mitad == ahora - Timedelta(dias \div 2)
        primera_mitad ==
            SumaMontos(SelectSeq(df, LAMBDA r :
                /\ Instante(r.fecha.dia) >= fecha_limite
                /\ Instante(r.fecha.dia) < fecha_mitad
                /\ EsGasto(r)))
        segunda_mitad ==
            SumaMontos(SelectSeq(df, LAMBDA r :
                /\ Instante(r.fecha.dia) >= fecha_mitad
                /\ EsGasto(r)))
        variacion == Porcentaje(segunda_mitad - primera_mitad, primera_mitad)
    IN IF primera_mitad = 0
       THEN [tendencia |-> "sin_datos", variacion_porcentual |-> 0]
       ELSE [tendencia |-> IF PctMayor(variacion, 10) THEN "creciente"
                           ELSE IF PctMenor(variacion, 0 - 10) THEN "decreciente"
                           ELSE "estable",
             \* round(variacion, 2), in hundredths
             variacion_porcentual |-> Redondear(variacion.num * 100, variacion.den),
             gasto_periodo_1 |-> primera_mitad,
             gasto_periodo_2 |-> segunda_mitad]

\* without the test for an empty frame
calcular_tendencia_sin_vacio(df, dias, ahora) == Tendencia(ADatetime(df), dias, ahora)

calcular_tendencia(df, dias, ahora) ==
    IF df = <<>>
    THEN [tendencia |-> "neutral", variacion_porcentual |-> 0]
    ELSE Tendencia(ADatetime(df), dias, ahora)

DiasTendencia == {2, 3}
\* datetime.now(): the midnight and the noon of the last day a row has, and
\* the midnight before, when the rows of the last day lie in the future
Ahoras == {Instante(MaxDia) - 2, Instante(MaxDia), Instante(MaxDia) + 1}

\* a call of calcular_tendencia: it rewrites the 'fecha' column of the frame
\* it is given
CalcularTendencia ==
    \E dias \in DiasTendencia, ahora \in Ahoras :
        /\ llamadas < MaxLlamadas
        /\ llamadas' = llamadas + 1
        /\ UNCHANGED <<tablas, sesion>>
        /\ resultado' = [op |-> "calcular_tendencia",
                         excepcion |-> "ninguna",
                         dias |-> dias,
                         ahora |-> ahora,
                         ret |-> calcular_tendencia(df_transacciones, dias, ahora)]
        /\ df_transacciones' = IF df_transacciones = <<>> THEN df_transacciones
                               ELSE ADatetime(df_transacciones)
        /\ UNCHANGED df_presupuestos

-----------------------------------------------------------------------------
(* The managers of app.py: the tables and the queries on them *)

\* the row the database stores for an insert: the data and the id it adds
ConId(datos, id) == datos @@ [id |-> id]

\* no usuario_id given to a listing
Ninguno == "None"

RECURSIVE InsertarOrdenado(_, _)
\* p put behind the entries whose key is at most its own
InsertarOrdenado(p, ordenadas) ==
    IF ordenadas = <<>> THEN <<p>>
    ELSE IF p.clave < Head(ordenadas).clave THEN <<p>> \o ordenadas
    ELSE <<Head(ordenadas)>> \o InsertarOrdenado(p, Tail(ordenadas))

RECURSIVE OrdenarDesde(_, _)
OrdenarDesde(pendientes, ordenadas) ==
    IF pendientes = <<>> THEN ordenadas
    ELSE OrdenarDesde(Tail(pendientes), InsertarOrdenado(Head(pendientes), ordenadas))

\* query.order(...): the rows by ascending key, claves[i] being the key of
\* filas[i]; rows of one key stay in the order of the table
Ordenar(filas, claves) ==
    LET pares == [i \in DOMAIN filas |-> [clave |-> claves[i], fila |-> filas[i]]]
        ordenadas == OrdenarDesde(pares, <<>>)
    IN [i \in DOMAIN ordenadas |-> ordenadas[i].fila]

\* the place of a category in the order of the texts
OrdenCategoria(c) == CHOOSE k \in DOMAIN CategoriasOrdenadas : CategoriasOrdenadas[k] = c

\* (datetime.now() - timedelta(days=dias)).strftime('%Y-%m-%d'): the day of
\* that instant, its time of day dropped
FechaInicio(dias, ahora) == (ahora - Timedelta(dias)) \div 2

\* TransaccionManager.listar_transacciones: fecha >= fecha_inicio, of the user
\* if one is given, latest first
listar_transacciones(tabla, usuario_id, dias, ahora) ==
    LET filas == SelectSeq(tabla, LAMBDA r :
                     /\ r.fecha.dia >= FechaInicio(dias, ahora)
                     /\ (usuario_id # Ninguno => r.usuario_id = usuario_id))
    IN Ordenar(filas, [i \in DOMAIN filas |-> 0 - filas[i].fecha.dia])

\* PresupuestoManager.listar_presupuestos: of the user if one is given, by category
listar_presupuestos(tabla, usuario_id) ==
    LET filas == SelectSeq(tabla, LAMBDA p :
                     usuario_id # Ninguno => p.usuario_id = usuario_id)
    IN Ordenar(filas, [i \in DOMAIN filas |-> OrdenCategoria(filas[i].categoria)])

\* AlertaManager.listar_alertas: of the user if one is given, the unread ones
\* only if asked, latest first (created_at grows with the id)
listar_alertas(tabla, usuario_id, solo_no_leidas) ==
    LET filas == SelectSeq(tabla, LAMBDA a :
                     /\ (usuario_id # Ninguno => a.usuario_id = usuario_id)
                     /\ (solo_no_leidas => a.leida = FALSE))
    IN Ordenar(filas, [i \in DOMAIN filas |-> 0 - filas[i].id])

\* table.delete().eq('id', id)
SinId(tabla, id) == SelectSeq(tabla, LAMBDA r : r.id # id)

\* table.delete().eq('usuario_id', usuario_id)
SinUsuario(tabla, usuario_id) == SelectSeq(tabla, LAMBDA r : r.usuario_id # usuario_id)

\* update({'leida': True}).eq('id', alerta_id)
marcar_leida(tabla, alerta_id) ==
    [i \in DOMAIN tabla |->
        IF tabla[i].id = alerta_id THEN [tabla[i] EXCEPT !.leida = TRUE]
        ELSE tabla[i]]

RECURSIVE MarcarLeidas(_, _)
\* marcar_leida called for each of the alerts shown
MarcarLeidas(tabla, mostradas) ==
    IF mostradas = <<>> THEN tabla
    ELSE MarcarLeidas(marcar_leida(tabla, Head(mostradas).id), Tail(mostradas))

\* df.head(n)
Head_(df, n) == SubSeq(df, 1, IF Len(df) < n THEN Len(df) ELSE n)

\* the dashboard shows head(3) of the unread alerts
AlertasMostradas == 3

\* the periods the dashboard offers: dias_map
Periodos == {7, 30, 90}

\* the instants at which the pages are rendered: day 90, at midnight and at noon
AhorasPagina == {Instante(90), Instante(90) + 1}

\* a step of a manager or a page: what it leaves in resultado
Paso(op) == [op |-> op, excepcion |-> "ninguna"]

\* rows the forms can store: the date 85 is in every period, 60 in the two
\* longer ones, 0 in the longest only
FilasTabla ==
    {Fila(u, "gasto", "Alimentacion", 95, FechaStr(d)) : u \in Usuarios, d \in {60, 85}}
    \cup {Fila("u1", "ingreso", "Alimentacion", 120, FechaStr(85))}

\* what the edit form of a transaction writes over a row
DatosTransaccion ==
    {[monto |-> 120, categoria |-> "Alimentacion", tipo |-> "gasto",
      fecha |-> FechaStr(85), descripcion |-> "compra"],
     [monto |-> 95, categoria |-> "Transporte", tipo |-> "gasto",
      fecha |-> FechaStr(0), descripcion |-> "compra"]}

\* budgets the creation form can store (its minimum is 0.01), and what the
\* edit form, which has no minimum, writes over a row
PresupuestosTabla ==
    {[usuario_id |-> u, categoria |-> "Alimentacion", monto_maximo |-> 100,
      periodo |-> "mensual"] : u \in Usuarios}

DatosPresupuesto ==
    {[categoria |-> "Alimentacion", monto_maximo |-> 0, periodo |-> "mensual"],
     [categoria |-> "Transporte", monto_maximo |-> 100, periodo |-> "mensual"]}

\* TransaccionManager.crear_transaccion
CrearTransaccion ==
    \E datos \in FilasTabla :
        /\ llamadas < MaxPasos
        /\ Len(tabla_transacciones) < MaxTabla
        /\ datos.usuario_id \in tabla_usuarios
        /\ llamadas' = llamadas + 1
        /\ ultimo_id' = ultimo_id + 1
        /\ tabla_transacciones' =
              Append(tabla_transacciones, ConId(datos, ultimo_id + 1))
        /\ resultado' = Paso("crear_transaccion")
        /\ UNCHANGED <<sesion, otras_tablas, df_transacciones, df_presupuestos, tabla_usuarios,
                       tabla_presupuestos, tabla_alertas>>

\* TransaccionManager.actualizar_transaccion
ActualizarTransaccion ==
    \E i \in DOMAIN tabla_transacciones, datos \in DatosTransaccion :
        /\ llamadas < MaxPasos
        /\ llamadas' = llamadas + 1
        /\ tabla_transacciones' =
              [tabla_transacciones EXCEPT ![i] =
                  [@ EXCEPT !.monto = datos.monto,
                            !.categoria = datos.categoria,
                            !.tipo = datos.tipo,
                            !.fecha = datos.fecha,
                            !.descripcion = datos.descripcion]]
        /\ resultado' = Paso("actualizar_transaccion")
        /\ UNCHANGED <<sesion, otras_tablas, df_transacciones, df_presupuestos, tabla_usuarios,
                       tabla_presupuestos, tabla_alertas, ultimo_id>>

\* TransaccionManager.eliminar_transaccion
EliminarTransaccion ==
    \E i \in DOMAIN tabla_transacciones :
        /\ llamadas < MaxPasos
        /\ llamadas' = llamadas + 1
        /\ tabla_transacciones' = SinId(tabla_transacciones, tabla_transacciones[i].id)
        /\ resultado' = Paso("eliminar_transaccion")
        /\ UNCHANGED <<sesion, otras_tablas, df_transacciones, df_presupuestos, tabla_usuarios,
                       tabla_presupuestos, tabla_alertas, ultimo_id>>

\* PresupuestoManager.crear_presupuesto
CrearPresupuesto ==
    \E datos \in PresupuestosTabla :
        /\ llamadas < MaxPasos
        /\ Len(tabla_presupuestos) < MaxTabla
        /\ datos.usuario_id \in tabla_usuarios
        /\ llamadas' = llamadas + 1
        /\ ultimo_id' = ultimo_id + 1
        /\ tabla_presupuestos' =
              Append(tabla_presupuestos, ConId(datos, ultimo_id + 1))
        /\ resultado' = Paso("crear_presupuesto")
        /\ UNCHANGED <<sesion, otras_tablas, df_transacciones, df_presupuestos, tabla_usuarios,
                       tabla_transacciones, tabla_alertas>>

\* PresupuestoManager.actualizar_presupuesto
ActualizarPresupuesto ==
    \E i \in DOMAIN tabla_presupuestos, datos \in DatosPresupuesto :
        /\ llamadas < MaxPasos
        /\ llamadas' = llamadas + 1
        /\ tabla_presupuestos' =
              [tabla_presupuestos EXCEPT ![i] =
                  [@ EXCEPT !.categoria = datos.categoria,
                            !.monto_maximo = datos.monto_maximo,
                            !.periodo = datos.periodo]]
        /\ resultado' = Paso("actualizar_presupuesto")
        /\ UNCHANGED <<sesion, otras_tablas, df_transacciones, df_presupuestos, tabla_usuarios,
                       tabla_transacciones, tabla_alertas, ultimo_id>>

\* PresupuestoManager.eliminar_presupuesto
EliminarPresupuesto ==
    \E i \in DOMAIN tabla_presupuestos :
        /\ llamadas < MaxPasos
        /\ llamadas' = llamadas + 1
        /\ tabla_presupuestos' = SinId(tabla_presupuestos, tabla_presupuestos[i].id)
        /\ resultado' = Paso("eliminar_presupuesto")
        /\ UNCHANGED <<sesion, otras_tablas, df_transacciones, df_presupuestos, tabla_usuarios,
                       tabla_transacciones, tabla_alertas, ultimo_id>>

\* alerts the creation form can store
AlertasTabla ==
    {[usuario_id |-> u, tipo |-> "recordatorio", mensaje |-> "texto", severidad |-> s] :
        u \in Usuarios, s \in {"baja", "alta"}}

\* an alert stored as read from the start
CrearAlerta_leida ==
    \E datos \in AlertasTabla :
        /\ llamadas < MaxPasos
        /\ Len(tabla_alertas) < MaxTabla
        /\ datos.usuario_id \in tabla_usuarios
        /\ llamadas' = llamadas + 1
        /\ ultimo_id' = ultimo_id + 1
        /\ tabla_alertas' =
              Append(tabla_alertas, ConId(datos @@ [leida |-> TRUE], ultimo_id + 1))
        /\ resultado' = Paso("crear_alerta")
        /\ UNCHANGED <<sesion, otras_tablas, df_transacciones, df_presupuestos, tabla_usuarios,
                       tabla_transacciones, tabla_presupuestos>>

\* AlertaManager.crear_alerta
CrearAlerta ==
    \E datos \in AlertasTabla :
        /\ llamadas < MaxPasos
        /\ Len(tabla_alertas) < MaxTabla
        /\ datos.usuario_id \in tabla_usuarios
        /\ llamadas' = llamadas + 1
        /\ ultimo_id' = ultimo_id + 1
        /\ tabla_alertas' =
              Append(tabla_alertas, ConId(datos @@ [leida |-> FALSE], ultimo_id + 1))
        /\ resultado' = Paso("crear_alerta")
        /\ UNCHANGED <<sesion, otras_tablas, df_transacciones, df_presupuestos, tabla_usuarios,
                       tabla_transacciones, tabla_presupuestos>>

\* the button of an unread alert on the alerts page: AlertaManager.marcar_leida
MarcarLeida ==
    \E i \in DOMAIN tabla_alertas :
        /\ llamadas < MaxPasos
        /\ ~ tabla_alertas[i].leida
        /\ llamadas' = llamadas + 1
        /\ tabla_alertas' = marcar_leida(tabla_alertas, tabla_alertas[i].id)
        /\ resultado' = Paso("marcar_leida")
        /\ UNCHANGED <<sesion, otras_tablas, df_transacciones, df_presupuestos, tabla_usuarios,
                       tabla_transacciones, tabla_presupuestos, ultimo_id>>

\* the row of the user deleted first
OrdenDeBorrado_usuarios_primero ==
    <<"usuarios", "presupuestos", "transacciones", "alertas",
      "analisis_financiero", "inversiones", "suscripciones">>

\* the deletes of eliminar_usuario, in the order of the code
OrdenDeBorrado ==
    <<"presupuestos", "transacciones", "alertas", "analisis_financiero",
      "inversiones", "suscripciones", "usuarios">>

\* the failures of a call: 0 when no request raises, k when the k-th does
Fallas == 0..Len(OrdenDeBorrado)

\* the place of table t in the order of the deletes
LugarDe(t) == CHOOSE k \in DOMAIN OrdenDeBorrado : OrdenDeBorrado[k] = t

\* whether the delete on table t is carried out when the call fails at falla:
\* the request that raises deletes nothing and ends the try block
Borrado(t, falla) == falla = 0 \/ LugarDe(t) < falla

\* the tables after eliminar_usuario(usuario_id) failing at falla
TablasSinUsuario(usuario_id, falla) ==
    /\ tabla_presupuestos' =
          IF Borrado("presupuestos", falla)
          THEN SinUsuario(tabla_presupuestos, usuario_id) ELSE tabla_presupuestos
    /\ tabla_transacciones' =
          IF Borrado("transacciones", falla)
          THEN SinUsuario(tabla_transacciones, usuario_id) ELSE tabla_transacciones
    /\ tabla_alertas' =
          IF Borrado("alertas", falla)
          THEN SinUsuario(tabla_alertas, usuario_id) ELSE tabla_alertas
    /\ otras_tablas' =
          [t \in OtrasTablas |->
              IF Borrado(t, falla) THEN otras_tablas[t] \ {usuario_id}
              ELSE otras_tablas[t]]
    /\ tabla_usuarios' =
          IF Borrado("usuarios", falla)
          THEN tabla_usuarios \ {usuario_id} ELSE tabla_usuarios

\* what eliminar_usuario returns: True when no request raised and the last
\* delete returned the row of the user
eliminar_usuario(usuarios, usuario_id, falla) ==
    falla = 0 /\ usuario_id \in usuarios

\* UsuarioManager.eliminar_usuario: the rows of the user in the six tables
\* that refer to it, then the user; an exception is caught and gives False
EliminarUsuario ==
    \E usuario_id \in Usuarios, falla \in Fallas :
        /\ llamadas < MaxPasos
        /\ llamadas' = llamadas + 1
        /\ TablasSinUsuario(usuario_id, falla)
        /\ resultado' = [op |-> "eliminar_usuario",
                         excepcion |-> "ninguna",
                         usuario_id |-> usuario_id,
                         falla |-> falla,
                         ret |-> eliminar_usuario(tabla_usuarios, usuario_id, falla)]
        /\ UNCHANGED <<df_transacciones, df_presupuestos, ultimo_id, sesion>>

\* the form of the user maintainer submitted with Eliminar, for the user
\* selected: the first press sets the flag of the session, a press that finds
\* the flag set calls eliminar_usuario and clears it
FormEliminar ==
    \E usuario_seleccionado \in tabla_usuarios :
        /\ llamadas < MaxPasos
        /\ llamadas' = llamadas + 1
        /\ IF confirmar_eliminar
           THEN \E falla \in Fallas :
                  /\ TablasSinUsuario(usuario_seleccionado, falla)
                  /\ confirmar_eliminar' = FALSE
                  /\ resultado' =
                       [op |-> "form_eliminar",
                        excepcion |-> "ninguna",
                        usuario_id |-> usuario_seleccionado,
                        invocado |-> TRUE,
                        falla |-> falla,
                        ret |-> eliminar_usuario(tabla_usuarios,
                                                 usuario_seleccionado, falla)]
           ELSE /\ confirmar_eliminar' = TRUE
                /\ resultado' =
                     [op |-> "form_eliminar",
                      excepcion |-> "ninguna",
                      usuario_id |-> usuario_seleccionado,
                      invocado |-> FALSE,
                      falla |-> 0,
                      ret |-> FALSE]
                /\ UNCHANGED <<tabla_usuarios, tabla_transacciones, tabla_presupuestos,
                               tabla_alertas, otras_tablas>>
        /\ UNCHANGED <<df_transacciones, df_presupuestos, ultimo_id, mensajes>>

\* the form submitted with Actualizar: actualizar_usuario writes the name, the
\* email and the plan of the row, none of which the model holds, and the page
\* is run again
FormActualizar ==
    \E usuario_seleccionado \in tabla_usuarios :
        /\ llamadas < MaxPasos
        /\ llamadas' = llamadas + 1
        /\ resultado' = [op |-> "form_actualizar",
                         excepcion |-> "ninguna",
                         usuario_id |-> usuario_seleccionado]
        /\ UNCHANGED <<tablas, sesion, df_transacciones, df_presupuestos>>

\* the greeting mostrar_chat puts in a session that has no messages yet
Saludo == [role |-> "assistant", content |-> "Hola! Soy tu asistente financiero."]

\* the first lines of mostrar_chat: the list is made when the key is missing
MensajesDeSesion(lista) == IF lista = <<>> THEN <<Saludo>> ELSE lista

\* a page that analyses the frames the last run left and lists the tables
\* afterwards
PaginaDashboard_en_cache ==
    \E usuario_id \in Usuarios, dias \in Periodos, ahora \in AhorasPagina :
        LET transacciones ==
                listar_transacciones(tabla_transacciones, usuario_id, dias, ahora)
            presupuestos == listar_presupuestos(tabla_presupuestos, usuario_id)
            e == get_analisis_ia_excepcion(df_transacciones, df_presupuestos)
            df_alertas == listar_alertas(tabla_alertas, usuario_id, TRUE)
        IN /\ llamadas < MaxPasos
           /\ llamadas' = llamadas + 1
           /\ resultado' =
                [op |-> "pagina_dashboard",
                 excepcion |-> e,
                 usuario_id |-> usuario_id,
                 dias |-> dias,
                 ahora |-> ahora,
                 enviar |-> FALSE,
                 user_input |-> <<>>,
                 desenlace |-> Ninguno,
                 mostradas |-> IF e # "ninguna" THEN <<>>
                               ELSE Head_(df_alertas, AlertasMostradas),
                 ret |-> IF e # "ninguna" THEN SinAnalisis
                         ELSE get_analisis_ia(df_transacciones, df_presupuestos)]
           /\ df_presupuestos' = presupuestos
           /\ IF e # "ninguna"
              THEN /\ df_transacciones' = transacciones
                   /\ tabla_alertas' = tabla_alertas
              ELSE /\ df_transacciones' = ADatetime(transacciones)
                   /\ tabla_alertas' =
                        MarcarLeidas(tabla_alertas, Head_(df_alertas, AlertasMostradas))
           /\ mensajes' = MensajesDeSesion(mensajes)
           /\ UNCHANGED <<tabla_usuarios, tabla_transacciones, tabla_presupuestos,
                          ultimo_id, otras_tablas, confirmar_eliminar>>

\* A text typed into the chat is the sequence of its characters
Espacio == " "

RECURSIVE SinEspaciosDelante(_)
SinEspaciosDelante(texto) ==
    IF texto # <<>> /\ Head(texto) = Espacio THEN SinEspaciosDelante(Tail(texto))
    ELSE texto

RECURSIVE SinEspaciosDetras(_)
SinEspaciosDetras(texto) ==
    IF texto # <<>> /\ texto[Len(texto)] = Espacio
    THEN SinEspaciosDetras(SubSeq(texto, 1, Len(texto) - 1))
    ELSE texto

\* str.strip()
Strip(texto) == SinEspaciosDetras(SinEspaciosDelante(texto))

\* what becomes of the request to the webhook: status 200 with the list of
\* messages, status 200 with a body of another shape (response.json()[0]
\* ['messages'] raises), another status, no answer within the timeout, and
\* any other exception of requests.post
Desenlaces == {"200", "200_otro_cuerpo", "500", "Timeout", "ConnectionError"}

\* the reply the chat shows for each of them
Respuesta(desenlace) ==
    IF desenlace = "200" THEN "Operaciones hechas"
    ELSE IF desenlace = "500" THEN "No pude procesar tu operacion"
    ELSE IF desenlace = "Timeout" THEN "Procesando en segundo plano..."
    ELSE "Error al conectar"

\* a chat that shows no reply when the webhook does not answer in time
MensajesTrasEnvio_sin_respuesta(lista, enviar, user_input, desenlace) ==
    IF ~ (enviar /\ Strip(user_input) # <<>>) THEN lista
    ELSE IF desenlace = "Timeout"
    THEN lista \o << [role |-> "user", content |-> Strip(user_input)] >>
    ELSE lista \o << [role |-> "user", content |-> Strip(user_input)],
                     [role |-> "assistant", content |-> Respuesta(desenlace)] >>

\* the form of the chat: when it was submitted with a text that is not blank,
\* the text is appended as the message of the user, and the reply after it
MensajesTrasEnvio(lista, enviar, user_input, desenlace) ==
    IF ~ (enviar /\ Strip(user_input) # <<>>) THEN lista
    ELSE lista \o << [role |-> "user", content |-> Strip(user_input)],
                     [role |-> "assistant", content |-> Respuesta(desenlace)] >>

\* a run of pagina_dashboard for the user of the session: the chat in the
\* sidebar, the tables listed, the analysis of the listing, the unread alerts
\* shown and marked as read, and the dates of the listing turned into
\* Timestamps for the chart.  After a message sent st.rerun() runs the page
\* from the top.  An exception of get_analisis_ia ends the run of the page
\* where it is raised.
Pagina(usuario_id, dias, ahora, enviar, user_input, desenlace) ==
    LET transacciones ==
            listar_transacciones(tabla_transacciones, usuario_id, dias, ahora)
        presupuestos == listar_presupuestos(tabla_presupuestos, usuario_id)
        e == get_analisis_ia_excepcion(transacciones, presupuestos)
        df_alertas == listar_alertas(tabla_alertas, usuario_id, TRUE)
    IN /\ llamadas < MaxPasos
       /\ llamadas' = llamadas + 1
       /\ resultado' =
            [op |-> "pagina_dashboard",
             excepcion |-> e,
             usuario_id |-> usuario_id,
             dias |-> dias,
             ahora |-> ahora,
             enviar |-> enviar,
             user_input |-> user_input,
             desenlace |-> desenlace,
             mostradas |-> IF e # "ninguna" THEN <<>>
                           ELSE Head_(df_alertas, AlertasMostradas),
             ret |-> IF e # "ninguna" THEN SinAnalisis
                     ELSE get_analisis_ia(transacciones, presupuestos)]
       /\ mensajes' =
            MensajesTrasEnvio(MensajesDeSesion(mensajes), enviar, user_input, desenlace)
       /\ df_presupuestos' = presupuestos
       /\ IF e # "ninguna"
          THEN /\ df_transacciones' = transacciones
               /\ tabla_alertas' = tabla_alertas
          ELSE /\ df_transacciones' = ADatetime(transacciones)
               /\ tabla_alertas' =
                    MarcarLeidas(tabla_alertas, Head_(df_alertas, AlertasMostradas))
       /\ UNCHANGED <<tabla_usuarios, tabla_transacciones, tabla_presupuestos,
                      ultimo_id, otras_tablas, confirmar_eliminar>>

\* the page opened or run again, the form of the chat not submitted
PaginaDashboard ==
    \E usuario_id \in Usuarios, dias \in Periodos, ahora \in AhorasPagina :
        Pagina(usuario_id, dias, ahora, FALSE, <<>>, Ninguno)

\* texts for the chat: empty, blank, and one with a word between blanks
Textos == {<<>>, <<Espacio>>, <<Espacio, "a", Espacio>>}

\* the form of the chat submitted: it is on the page once a run has shown it
EnviarMensaje ==
    \E usuario_id \in Usuarios, dias \in Periodos, ahora \in AhorasPagina,
       user_input \in Textos, desenlace \in Desenlaces \cup {Ninguno} :
        /\ mensajes # <<>>
        /\ desenlace = Ninguno <=> Strip(user_input) = <<>>
        /\ Pagina(usuario_id, dias, ahora, TRUE, user_input, desenlace)

-----------------------------------------------------------------------------
(* Budget checks: the frames are any small transaction and budget tables *)

MontosAlerta == {1, 79, 120}
LimitesAlerta == {0, 100}

\* u1's expenses in full; one income row of u1 and one expense row of u2
FilasAlerta ==
    {Fila("u1", "gasto", c, m, FechaStr(0)) : c \in Categorias, m \in MontosAlerta}
    \cup {Fila("u1", "ingreso", "Alimentacion", 120, FechaStr(0)),
          Fila("u2", "gasto", "Alimentacion", 120, FechaStr(0))}

\* u1's budgets in full; one budget of u2
PresupuestosAlerta ==
    {Presupuesto("u1", c, m) : c \in Categorias, m \in LimitesAlerta}
    \cup {Presupuesto("u2", "Alimentacion", 100)}

SinLlamada == [op |-> "ninguna", excepcion |-> "ninguna"]

InitPresupuestos ==
    /\ df_transacciones \in SeqHasta(FilasAlerta, MaxFilasAlerta)
    /\ df_presupuestos \in SeqHasta(PresupuestosAlerta, MaxPresupuestosAlerta)
    /\ resultado = SinLlamada
    /\ llamadas = 0
    /\ BaseVacia
    /\ SesionNueva

NextPresupuestos == VerificarPresupuestos

SpecPresupuestos == InitPresupuestos /\ [][NextPresupuestos]_vars

-----------------------------------------------------------------------------
(* The advisor: the frames are the transactions and budgets of one user *)

MontosAsesor == {5, 95, 120}
LimitesAsesor == {0, 100}

FilasAsesor ==
    {Fila("u1", t, c, m, FechaStr(0)) :
        t \in Tipos, c \in Categorias, m \in MontosAsesor}

PresupuestosAsesor ==
    {Presupuesto("u1", c, m) : c \in Categorias, m \in LimitesAsesor}

InitAsesor ==
    /\ df_transacciones \in SeqHasta(FilasAsesor, MaxFilasAsesor)
    /\ df_presupuestos \in SeqHasta(PresupuestosAsesor, MaxPresupuestosAsesor)
    /\ resultado = SinLlamada
    /\ llamadas = 0
    /\ BaseVacia
    /\ SesionNueva

NextAsesor == GetAnalisisIA

SpecAsesor == InitAsesor /\ [][NextAsesor]_vars

\* the analyzer and the advisor called on the same frames
NextTotales ==
    \/ AnalizarTransacciones
    \/ GetAnalisisIA

SpecTotales == InitAsesor /\ [][NextTotales]_vars

\* the two budget rules called on the same frames
NextLimites ==
    \/ VerificarPresupuestos
    \/ GetAnalisisIA

SpecLimites == InitAsesor /\ [][NextLimites]_vars

-----------------------------------------------------------------------------
(* The analyzer *)

MontosAnalisis == {10, 30}

FilasAnalisis ==
    {Fila("u1", t, c, m, FechaStr(0)) :
        t \in Tipos, c \in Categorias, m \in MontosAnalisis}

InitAnalisis ==
    /\ df_transacciones \in SeqHasta(FilasAnalisis, MaxFilasAnalisis)
    /\ df_presupuestos = <<>>
    /\ resultado = SinLlamada
    /\ llamadas = 0
    /\ BaseVacia
    /\ SesionNueva

NextAnalisis == AnalizarTransacciones

SpecAnalisis == InitAnalisis /\ [][NextAnalisis]_vars

MontosInusuales == {10, 1000}

FilasInusuales ==
    {Fila("u1", t, "Alimentacion", m, FechaStr(0)) :
        t \in Tipos, m \in MontosInusuales}

InitInusuales ==
    /\ df_transacciones \in SeqHasta(FilasInusuales, MaxFilasInusuales)
    /\ df_presupuestos = <<>>
    /\ resultado = SinLlamada
    /\ llamadas = 0
    /\ BaseVacia
    /\ SesionNueva

NextInusuales == DetectarGastosInusuales

SpecInusuales == InitInusuales /\ [][NextInusuales]_vars

\* expenses that differ by exactly a tenth (10 to 11, 10 to 9) and by more
MontosTendencia == {9, 10, 11}

FilasTendencia ==
    {Fila("u1", "gasto", "Alimentacion", m, FechaStr(d)) :
        m \in MontosTendencia, d \in 0..MaxDia}
    \cup {Fila("u1", "ingreso", "Alimentacion", 10, FechaStr(d)) : d \in 0..MaxDia}

InitTendencia ==
    /\ df_transacciones \in SeqHasta(FilasTendencia, MaxFilasTendencia)
    /\ df_presupuestos = <<>>
    /\ resultado = SinLlamada
    /\ llamadas = 0
    /\ BaseVacia
    /\ SesionNueva

NextTendencia == CalcularTendencia

SpecTendencia == InitTendencia /\ [][NextTendencia]_vars

\* the analyzer, the alert generator and the advisor, each called on frames
\* whose dates are the texts the table stores
InitFunciones ==
    /\ df_transacciones \in SeqHasta(FilasTendencia, MaxFilasTendencia)
    /\ df_presupuestos \in SeqHasta(PresupuestosAsesor, MaxFilasBase)
    /\ resultado = SinLlamada
    /\ llamadas = 0
    /\ BaseVacia
    /\ SesionNueva

NextFunciones ==
    \/ AnalizarTransacciones
    \/ DetectarGastosInusuales
    \/ CalcularTendencia
    \/ VerificarPresupuestos
    \/ DetectarPatronesInusuales
    \/ GetAnalisisIA

SpecFunciones == InitFunciones /\ [][NextFunciones]_vars

\* the dashboard between changes of the transactions and the budgets
InitDashboard ==
    /\ df_transacciones = <<>>
    /\ df_presupuestos = <<>>
    /\ resultado = SinLlamada
    /\ llamadas = 0
    /\ BaseVacia
    /\ SesionNueva

NextDashboard ==
    \/ CrearTransaccion
    \/ ActualizarTransaccion
    \/ EliminarTransaccion
    \/ CrearPresupuesto
    \/ ActualizarPresupuesto
    \/ EliminarPresupuesto
    \/ PaginaDashboard

SpecDashboard == InitDashboard /\ [][NextDashboard]_vars

\* the alerts: created, shown on the dashboard, marked on the alerts page,
\* deleted with their user
NextAlertas ==
    \/ CrearAlerta
    \/ MarcarLeida
    \/ PaginaDashboard
    \/ EliminarUsuario

SpecAlertas == InitDashboard /\ [][NextAlertas]_vars

\* the alerts of the dashboard: a database that holds an expense and a budget
\* of u1, and alerts, read or not, the last one of u2 and the others of u1
AlertasGuardadas ==
    {[i \in 1..MaxAlertas |->
         ConId([usuario_id |-> IF i = MaxAlertas THEN "u2" ELSE "u1",
                tipo |-> "recordatorio", mensaje |-> "texto",
                severidad |-> "alta", leida |-> leidas[i]], i)] :
        leidas \in [1..MaxAlertas -> BOOLEAN]}

InitAvisos ==
    /\ df_transacciones = <<>>
    /\ df_presupuestos = <<>>
    /\ resultado = SinLlamada
    /\ llamadas = 0
    /\ tabla_usuarios = Usuarios
    /\ tabla_alertas \in AlertasGuardadas
    /\ tabla_transacciones =
          << ConId(Fila("u1", "gasto", "Alimentacion", 95, FechaStr(85)),
                   MaxAlertas + 1) >>
    /\ tabla_presupuestos =
          << ConId([usuario_id |-> "u1", categoria |-> "Alimentacion",
                    monto_maximo |-> 100, periodo |-> "mensual"], MaxAlertas + 2) >>
    /\ ultimo_id = MaxAlertas + 2
    /\ otras_tablas = [t \in OtrasTablas |-> {}]
    /\ SesionNueva

NextAvisos ==
    \/ PaginaDashboard
    \/ ActualizarPresupuesto

SpecAvisos == InitAvisos /\ [][NextAvisos]_vars

\* the chat of the dashboard
NextChat ==
    \/ PaginaDashboard
    \/ EnviarMensaje

SpecChat == InitDashboard /\ [][NextChat]_vars

-----------------------------------------------------------------------------
(* The user maintainer: a database in which both users have rows *)

InitUsuarios ==
    /\ df_transacciones = <<>>
    /\ df_presupuestos = <<>>
    /\ resultado = SinLlamada
    /\ llamadas = 0
    /\ tabla_usuarios = Usuarios
    /\ tabla_transacciones =
          << ConId(Fila("u1", "gasto", "Alimentacion", 95, FechaStr(85)), 1),
             ConId(Fila("u2", "gasto", "Alimentacion", 95, FechaStr(85)), 2) >>
    /\ tabla_presupuestos =
          << ConId([usuario_id |-> "u1", categoria |-> "Alimentacion",
                    monto_maximo |-> 100, periodo |-> "mensual"], 3) >>
    /\ tabla_alertas =
          << ConId([usuario_id |-> "u1", tipo |-> "recordatorio", mensaje |-> "texto",
                    severidad |-> "baja", leida |-> FALSE], 4),
             ConId([usuario_id |-> "u2", tipo |-> "recordatorio", mensaje |-> "texto",
                    severidad |-> "baja", leida |-> FALSE], 5) >>
    /\ ultimo_id = 5
    /\ otras_tablas \in [OtrasTablas -> SUBSET Usuarios]
    /\ SesionNueva

NextUsuarios ==
    \/ FormEliminar
    \/ FormActualizar
    \/ EliminarUsuario

SpecUsuarios == InitUsuarios /\ [][NextUsuarios]_vars

-----------------------------------------------------------------------------
(* The validator: no frame is involved *)

InitValidar ==
    /\ df_transacciones = <<>>
    /\ df_presupuestos = <<>>
    /\ resultado = SinLlamada
    /\ llamadas = 0
    /\ BaseVacia
    /\ SesionNueva

NextValidar == ValidarTransaccion

SpecValidar == InitValidar /\ [][NextValidar]_vars

-----------------------------------------------------------------------------
(* Every function of db_helpers.py and the advisor, on frames of at most    *)
(* MaxFilasBase rows each                                                  *)

Init ==
    /\ df_transacciones \in SeqHasta(FilasAlerta, MaxFilasBase)
    /\ df_presupuestos \in SeqHasta(PresupuestosAlerta, MaxFilasBase)
    /\ resultado = SinLlamada
    /\ llamadas = 0
    /\ BaseVacia
    /\ SesionNueva

Next ==
    \/ ValidarTransaccion
    \/ AnalizarTransacciones
    \/ DetectarGastosInusuales
    \/ CalcularTendencia
    \/ VerificarPresupuestos
    \/ DetectarPatronesInusuales
    \/ GetAnalisisIA

Spec == Init /\ [][Next]_vars

-----------------------------------------------------------------------------
(* Claims about verificar_presupuestos, under SpecPresupuestos *)

\* the sum of the expenses of user u in category c, taken directly from the frame
GastoUsuario(u, c) ==
    SumaMontos(SelectSeq(df_transacciones,
                         LAMBDA r : r.usuario_id = u /\ r.tipo = "gasto"
                                    /\ r.categoria = c))

\* the alerts returned that cite category c and ceiling l
AlertasDe(c, l) ==
    SelectSeq(resultado.ret, LAMBDA a : a.categoria = c /\ a.limite = l)

\* the budget rows of user u with category c and ceiling l
PresupuestosDe(u, c, l) ==
    SelectSeq(df_presupuestos,
              LAMBDA p : p.usuario_id = u /\ p.categoria = c /\ p.monto_maximo = l)

\* the percentage printed with one decimal is the nearest tenth to s / l * 100
CitaPorcentaje(a, s, l) ==
    IF l = 0 THEN a.mensaje.porcentaje.texto = "inf"
    ELSE /\ a.mensaje.porcentaje.texto = "numero"
         /\ LET e == a.mensaje.porcentaje.decimas * l - 1000 * s
            IN 2 * e <= l /\ 2 * (0 - e) <= l

\* C1: every budget row of usuario_id whose category's summed expenses of that
\* user exceed the ceiling gets exactly one alert, of tipo presupuesto_excedido
\* and severidad alta, citing the overage spend - ceiling and the percentage
\* spend / ceiling * 100.
C1_PresupuestoExcedido ==
    resultado.op = "verificar_presupuestos" =>
        \A i \in DOMAIN df_presupuestos :
            LET p == df_presupuestos[i]
                u == resultado.usuario_id
                s == GastoUsuario(u, p.categoria)
                l == p.monto_maximo
                as == AlertasDe(p.categoria, l)
            IN (p.usuario_id = u /\ s > l) =>
                 /\ Len(as) = Len(PresupuestosDe(u, p.categoria, l))
                 /\ \A k \in DOMAIN as :
                       /\ as[k].tipo = "presupuesto_excedido"
                       /\ as[k].severidad = "alta"
                       /\ as[k].gasto_actual = s
                       /\ as[k].mensaje.monto = s - l
                       /\ CitaPorcentaje(as[k], s, l)

\* spend 120 against ceiling 100: one alert, overage 20, 120.0%
C1_Witness ==
    /\ resultado.op = "verificar_presupuestos"
    /\ resultado.usuario_id = "u1"
    /\ df_presupuestos = <<Presupuesto("u1", "Alimentacion", 100)>>
    /\ GastoUsuario("u1", "Alimentacion") = 120
    /\ Len(resultado.ret) = 1
    /\ resultado.ret[1].tipo = "presupuesto_excedido"
    /\ resultado.ret[1].severidad = "alta"
    /\ resultado.ret[1].mensaje.monto = 20
    /\ resultado.ret[1].mensaje.porcentaje.decimas = 1200

\* C2: for a budget row of usuario_id with ceiling l > 0 and summed expense s
\* of that user in its category: s <= l and s * 100 >= 80 * l gives exactly one
\* alert presupuesto_cerca_limite of severidad media for the row; s * 100 < 80 * l
\* gives no alert for the row.
C2_CercaDelLimite ==
    resultado.op = "verificar_presupuestos" =>
        \A i \in DOMAIN df_presupuestos :
            LET p == df_presupuestos[i]
                u == resultado.usuario_id
                s == GastoUsuario(u, p.categoria)
                l == p.monto_maximo
                as == AlertasDe(p.categoria, l)
            IN (p.usuario_id = u /\ l > 0) =>
                 /\ (s <= l /\ s * 100 >= 80 * l) =>
                       /\ Len(as) = Len(PresupuestosDe(u, p.categoria, l))
                       /\ \A k \in DOMAIN as :
                             /\ as[k].tipo = "presupuesto_cerca_limite"
                             /\ as[k].severidad = "media"
                             /\ as[k].gasto_actual = s
                 /\ (s * 100 < 80 * l) => as = <<>>

\* 79 + 1 = 80 against ceiling 100 (80% exactly): one presupuesto_cerca_limite
C2_Witness ==
    /\ resultado.op = "verificar_presupuestos"
    /\ resultado.usuario_id = "u1"
    /\ df_presupuestos = <<Presupuesto("u1", "Alimentacion", 100)>>
    /\ GastoUsuario("u1", "Alimentacion") = 80
    /\ Len(resultado.ret) = 1
    /\ resultado.ret[1].tipo = "presupuesto_cerca_limite"
    /\ resultado.ret[1].severidad = "media"

\* the expense rows of user u, and the budget rows of user u, in frame order
GastosPropios(u) ==
    SelectSeq(df_transacciones, LAMBDA r : r.usuario_id = u /\ r.tipo = "gasto")

PresupuestosPropios(u) ==
    SelectSeq(df_presupuestos, LAMBDA p : p.usuario_id = u)

\* C13: the alerts verificar_presupuestos returns for a user are the ones it
\* returns on that user's expense rows and that user's budget rows alone: rows
\* of other users, in either frame, and income rows of the user change nothing.
C13_SoloDelUsuario ==
    resultado.op = "verificar_presupuestos" =>
        resultado.ret =
            verificar_presupuestos(GastosPropios(resultado.usuario_id),
                                   PresupuestosPropios(resultado.usuario_id),
                                   resultado.usuario_id)

\* a call for u1 that returns an alert, on frames that also hold an expense
\* of u2 in the same category and a budget of u2
C13_Witness ==
    /\ resultado.op = "verificar_presupuestos"
    /\ resultado.usuario_id = "u1"
    /\ resultado.ret # <<>>
    /\ \E i \in DOMAIN df_transacciones :
          /\ df_transacciones[i].usuario_id = "u2"
          /\ df_transacciones[i].categoria = resultado.ret[1].categoria
    /\ \E i \in DOMAIN df_presupuestos : df_presupuestos[i].usuario_id = "u2"

\* C26: verificar_presupuestos returns, for the budget rows of usuario_id with
\* one category and one ceiling, at most as many alerts as there are such
\* rows, all of one tipo (so no row gets two alerts, and none both
\* presupuesto_excedido and presupuesto_cerca_limite); it returns at most as
\* many alerts as the user has budget rows; every alert's category has a budget
\* row of the user and an expense of the user; and it returns nothing when a
\* frame is empty.
C26_UnaPorPresupuesto ==
    resultado.op = "verificar_presupuestos" =>
        LET u == resultado.usuario_id
        IN /\ \A c \in Categorias, l \in LimitesAlerta :
                 LET as == AlertasDe(c, l)
                 IN /\ Len(as) <= Len(PresupuestosDe(u, c, l))
                    /\ \A j, k \in DOMAIN as : as[j].tipo = as[k].tipo
           /\ Len(resultado.ret) <= Len(PresupuestosPropios(u))
           /\ \A k \in DOMAIN resultado.ret :
                 LET a == resultado.ret[k]
                 IN /\ a.tipo \in {"presupuesto_excedido", "presupuesto_cerca_limite"}
                    /\ a.limite \in LimitesAlerta
                    /\ \E i \in DOMAIN df_presupuestos :
                          /\ df_presupuestos[i].usuario_id = u
                          /\ df_presupuestos[i].categoria = a.categoria
                          /\ df_presupuestos[i].monto_maximo = a.limite
                    /\ \E i \in DOMAIN df_transacciones :
                          /\ df_transacciones[i].usuario_id = u
                          /\ df_transacciones[i].tipo = "gasto"
                          /\ df_transacciones[i].categoria = a.categoria
           /\ (df_transacciones = <<>> \/ df_presupuestos = <<>>) => resultado.ret = <<>>

\* two budget rows of u1, one over its ceiling and one of a category without
\* expense: one alert
C26_Witness ==
    /\ resultado.op = "verificar_presupuestos"
    /\ resultado.usuario_id = "u1"
    /\ Len(PresupuestosPropios("u1")) = 2
    /\ GastoUsuario("u1", "Alimentacion") = 120
    /\ GastoUsuario("u1", "Transporte") = 0
    /\ Len(resultado.ret) = 1
    /\ resultado.ret[1].tipo = "presupuesto_excedido"
    /\ resultado.ret[1].categoria = "Alimentacion"

-----------------------------------------------------------------------------
(* Claims about get_analisis_ia, under SpecAsesor *)

\* the totals of the frame, each summed directly over its rows
TotalIngresos == SumaMontos(SelectSeq(df_transacciones, LAMBDA r : r.tipo = "ingreso"))
TotalGastos == SumaMontos(SelectSeq(df_transacciones, LAMBDA r : r.tipo = "gasto"))

GastoCategoria(c) ==
    SumaMontos(SelectSeq(df_transacciones,
                         LAMBDA r : r.tipo = "gasto" /\ r.categoria = c))

HayGasto(c) ==
    \E i \in DOMAIN df_transacciones :
        df_transacciones[i].tipo = "gasto" /\ df_transacciones[i].categoria = c

AlertasAsesorDe(c) == SelectSeq(resultado.ret.alertas, LAMBDA a : a.categoria = c)

TextoExcedido == "Presupuesto excedido en {categoria}! ({porcentaje}%)"
TextoCerca == "Gastos en {categoria} al {porcentaje}% del presupuesto"

\* C3: for every category present in the expenses and in the budgets, with
\* percent = expense / budget * 100, the advisor appends the budget-exceeded
\* string when percent > 100, the near-limit string when 90 < percent <= 100,
\* and nothing otherwise.
C3_ReglaPresupuestoAsesor ==
    (resultado.op = "get_analisis_ia" /\ resultado.excepcion = "ninguna") =>
        \A c \in Categorias :
            (HayGasto(c) /\ EnDict(df_presupuestos, c)
                /\ DictValor(df_presupuestos, c) > 0) =>
                LET g == GastoCategoria(c)
                    b == DictValor(df_presupuestos, c)
                    as == AlertasAsesorDe(c)
                IN IF g * 100 > 100 * b
                   THEN Len(as) = 1 /\ as[1].texto = TextoExcedido
                   ELSE IF g * 100 > 90 * b
                   THEN Len(as) = 1 /\ as[1].texto = TextoCerca
                   ELSE as = <<>>

\* C4: after every call of get_analisis_ia the result's ahorro_neto is
\* total income - total expense of the input, and total_ingresos and
\* total_gastos are those two sums.
C4_AhorroNeto ==
    resultado.op = "get_analisis_ia" =>
        /\ resultado.excepcion = "ninguna"
        /\ resultado.ret.resumen.total_ingresos = TotalIngresos
        /\ resultado.ret.resumen.total_gastos = TotalGastos
        /\ resultado.ret.resumen.ahorro_neto = TotalIngresos - TotalGastos

\* C5: after every call of get_analisis_ia the savings rate is
\* net savings / total income * 100 when total income > 0 and 0 when it is 0,
\* and the call has divided by zero nowhere.
C5_TasaAhorro ==
    resultado.op = "get_analisis_ia" =>
        /\ resultado.excepcion = "ninguna"
        /\ LET t == resultado.ret.resumen.tasa_ahorro
           IN /\ t.clase = "fin"
              /\ TotalIngresos > 0 =>
                    t.num * TotalIngresos = (TotalIngresos - TotalGastos) * 100 * t.den
              /\ TotalIngresos = 0 => t.num = 0

C11_SinTransacciones ==
    (resultado.op = "get_analisis_ia" /\ df_transacciones = <<>>) =>
        /\ resultado.excepcion = "ninguna"
        /\ resultado.ret.resumen.total_ingresos = 0
        /\ resultado.ret.resumen.total_gastos = 0
        /\ resultado.ret.resumen.ahorro_neto = 0
        /\ resultado.ret.resumen.tasa_ahorro.clase = "fin"
        /\ resultado.ret.resumen.tasa_ahorro.num = 0
        /\ Len(resultado.ret.recomendaciones) = 1
        /\ resultado.ret.recomendaciones[1].texto
             = "No hay suficientes datos para generar recomendaciones"
        /\ resultado.ret.alertas = <<>>
        /\ resultado.ret.predicciones.ahorro_3_meses.clase = "fin"
        /\ resultado.ret.predicciones.ahorro_3_meses.num = 0
        /\ resultado.ret.predicciones.proyeccion_gastos.clase = "fin"
        /\ resultado.ret.predicciones.proyeccion_gastos.num = 0

\* no transaction, and budgets that include a ceiling of 0
C11_Witness ==
    /\ resultado.op = "get_analisis_ia"
    /\ df_transacciones = <<>>
    /\ \E i \in DOMAIN df_presupuestos : df_presupuestos[i].monto_maximo = 0
    /\ Len(resultado.ret.recomendaciones) = 1
    /\ resultado.ret.alertas = <<>>

\* C12: when get_analisis_ia is called on the non-empty frame that
\* analizar_transacciones has just been called on, it returns, and its
\* resumen's total_ingresos and total_gastos are the analyzer's.
C12_TotalesIguales ==
    [][(/\ resultado.op = "analizar_transacciones"
        /\ resultado'.op = "get_analisis_ia"
        /\ df_transacciones # <<>>) =>
          /\ df_transacciones' = df_transacciones
          /\ resultado'.excepcion = "ninguna"
          /\ resultado'.ret.resumen.total_ingresos = resultado.ret.total_ingresos
          /\ resultado'.ret.resumen.total_gastos = resultado.ret.total_gastos]_vars

\* the categories whose summed expense is the largest of the frame
CategoriasMaximas ==
    {c \in Categorias :
        /\ HayGasto(c)
        /\ \A d \in Categorias : GastoCategoria(d) <= GastoCategoria(c)}

\* the texts of the recommendations
TextoAhorroBajo == "Considera aumentar tu tasa de ahorro al menos al 10% de tus ingresos"
TextoAhorroAlto == "Excelente! Estas ahorrando mas del 30% de tus ingresos"
TextoMayorGasto == "Tu mayor gasto es en {categoria_mayor}. Revisa si puedes optimizarlo"
TextoContinua == "Continua registrando tus transacciones para mejores analisis"
TextoSinDatos == "No hay suficientes datos para generar recomendaciones"

HayRecomendacion(t) ==
    \E i \in DOMAIN resultado.ret.recomendaciones :
        resultado.ret.recomendaciones[i].texto = t

\* the savings rate is below k percent, above k percent
TasaBajo(k) == (TotalIngresos - TotalGastos) * 100 < k * TotalIngresos
TasaSobre(k) == (TotalIngresos - TotalGastos) * 100 > k * TotalIngresos

\* C23: a call of get_analisis_ia on a frame with rows returns, and its
\* recommendations hold the low-savings text iff total income > 0 and the
\* savings rate < 10, the congratulation iff total income > 0 and the
\* savings rate > 30, never both, and neither when total income is 0 or the
\* rate lies between 10 and 30.
C23_RecomendacionAhorro ==
    (resultado.op = "get_analisis_ia" /\ df_transacciones # <<>>) =>
        /\ resultado.excepcion = "ninguna"
        /\ HayRecomendacion(TextoAhorroBajo) <=> (TotalIngresos > 0 /\ TasaBajo(10))
        /\ HayRecomendacion(TextoAhorroAlto) <=> (TotalIngresos > 0 /\ TasaSobre(30))
        /\ ~ (HayRecomendacion(TextoAhorroBajo) /\ HayRecomendacion(TextoAhorroAlto))

\* C24: every call of get_analisis_ia returns a list of recommendations that
\* is not empty; when the frame holds an expense it holds the
\* biggest-expense text with a category of maximal summed expense; and the
\* keep-tracking text is in it iff no other text is, and is then its only
\* element.
C24_Recomendaciones ==
    resultado.op = "get_analisis_ia" =>
        LET recs == resultado.ret.recomendaciones
        IN /\ resultado.excepcion = "ninguna"
           /\ recs # <<>>
           /\ TotalGastos > 0 =>
                 \E i \in DOMAIN recs :
                     /\ recs[i].texto = TextoMayorGasto
                     /\ recs[i].categoria \in CategoriasMaximas
           /\ HayRecomendacion(TextoContinua) <=>
                 \A i \in DOMAIN recs : recs[i].texto = TextoContinua
           /\ HayRecomendacion(TextoContinua) => Len(recs) = 1

\* C25: a call of get_analisis_ia on a frame with rows returns, with
\* 100 * ahorro_3_meses = 315 * (total income - total expense) and
\* 100 * proyeccion_gastos = 102 * total expense.
C25_Predicciones ==
    (resultado.op = "get_analisis_ia" /\ df_transacciones # <<>>) =>
        LET a == resultado.ret.predicciones.ahorro_3_meses
            g == resultado.ret.predicciones.proyeccion_gastos
        IN /\ resultado.excepcion = "ninguna"
           /\ a.clase = "fin" /\ g.clase = "fin"
           /\ 100 * a.num = 315 * (TotalIngresos - TotalGastos) * a.den
           /\ 100 * g.num = 102 * TotalGastos * g.den

-----------------------------------------------------------------------------
(* Claims about the analyzer *)

\* C6: for a non-empty frame, analizar_transacciones returns total_ingresos
\* and total_gastos equal to the sums of the income and expense amounts, and
\* total_ingresos - total_gastos = balance.
C6_Balance ==
    (resultado.op = "analizar_transacciones" /\ df_transacciones # <<>>) =>
        /\ resultado.ret.total_ingresos = TotalIngresos
        /\ resultado.ret.total_gastos = TotalGastos
        /\ resultado.ret.total_ingresos - resultado.ret.total_gastos
             = resultado.ret.balance

\* a frame with income and expenses, expenses the larger
C6_Witness ==
    /\ resultado.op = "analizar_transacciones"
    /\ TotalIngresos = 10
    /\ TotalGastos = 40
    /\ resultado.ret.balance = 0 - 30

\* C7 as stated: calcular_tendencia on an empty frame returns sin_datos with
\* variacion_porcentual 0, the label of a first half without expenses.
C7_VacioSinDatos ==
    (resultado.op = "calcular_tendencia" /\ df_transacciones = <<>>) =>
        /\ resultado.ret.tendencia = "sin_datos"
        /\ resultado.ret.variacion_porcentual = 0

\* the expenses of the first half of the window of the last call
GastoPrimeraMitad ==
    SumaMontos(SelectSeq(df_transacciones, LAMBDA r :
        /\ r.tipo = "gasto"
        /\ 2 * r.fecha.dia >= resultado.ahora - 2 * resultado.dias
        /\ 2 * r.fecha.dia < resultado.ahora - 2 * (resultado.dias \div 2)))

\* C7 amended: calcular_tendencia on an empty frame returns neutral with
\* variacion_porcentual 0; sin_datos is the label of a non-empty frame whose
\* first half has no expenses, and of no empty one.
C7_VacioNeutral ==
    resultado.op = "calcular_tendencia" =>
        /\ df_transacciones = <<>> =>
              /\ resultado.ret.tendencia = "neutral"
              /\ resultado.ret.variacion_porcentual = 0
        /\ resultado.ret.tendencia = "sin_datos" <=>
              (df_transacciones # <<>> /\ GastoPrimeraMitad = 0)

C7_Witness ==
    /\ resultado.op = "calcular_tendencia"
    /\ df_transacciones = <<>>
    /\ resultado.ret.tendencia = "neutral"

\* the expenses dated from instant desde on and before instant hasta
GastoEntre(desde, hasta) ==
    SumaMontos(SelectSeq(df_transacciones, LAMBDA r :
        /\ r.tipo = "gasto"
        /\ 2 * r.fecha.dia >= desde
        /\ 2 * r.fecha.dia < hasta))

\* the two halves of the window of the last call, each as long as the other:
\* in half days the window is 2 * dias long and each half is dias long
GastoMitad1 ==
    GastoEntre(resultado.ahora - 2 * resultado.dias, resultado.ahora - resultado.dias)

GastoMitad2 ==
    GastoEntre(resultado.ahora - resultado.dias, resultado.ahora + 1)

\* C21: calcular_tendencia splits the dias days that end now into two halves
\* of equal length, each including its start: gasto_periodo_1 is the sum of
\* the expenses dated in the first half and gasto_periodo_2 of those dated in
\* the second, for odd dias too; expenses before the window or after now, and
\* income, are in neither.  (A first half without expenses shows as sin_datos.)
C21_MitadesIguales ==
    (resultado.op = "calcular_tendencia" /\ df_transacciones # <<>>) =>
        IF GastoMitad1 = 0
        THEN resultado.ret.tendencia = "sin_datos"
        ELSE /\ resultado.ret.tendencia # "sin_datos"
             /\ resultado.ret.gasto_periodo_1 = GastoMitad1
             /\ resultado.ret.gasto_periodo_2 = GastoMitad2

\* the label that goes with the totals p1 # 0 and p2 of the two periods
EtiquetaDe(p1, p2) ==
    IF (p2 - p1) * 100 > 10 * p1 THEN "creciente"
    ELSE IF (p2 - p1) * 100 < (0 - 10) * p1 THEN "decreciente"
    ELSE "estable"

Montos(filas) == [i \in DOMAIN filas |-> filas[i].monto]

CincoGastos ==
    /\ resultado.op = "detectar_gastos_inusuales"
    /\ resultado.umbral_desviacion = 2
    /\ Montos(df_transacciones) = <<10, 10, 10, 10, 1000>>
    /\ \A i \in DOMAIN df_transacciones : df_transacciones[i].tipo = "gasto"

\* C8 as stated: with umbral 2 on the expenses 10, 10, 10, 10, 1000 the rows
\* returned are exactly the one of 1000.
C8_SoloMil ==
    CincoGastos => resultado.ret = <<df_transacciones[5]>>

\* C8 amended: with umbral 2 on the expenses 10, 10, 10, 10, 1000 no row is
\* returned: 1000 is below mean + 2 * std = 208 + 2 * 442.74, and so are the 10s.
C8_Ninguno ==
    CincoGastos => resultado.ret = <<>>

C8_Witness ==
    /\ CincoGastos
    /\ resultado.ret = <<>>

\* the expense rows of the frame, in frame order
FilasDeGasto == SelectSeq(df_transacciones, LAMBDA r : r.tipo = "gasto")

RECURSIVE SumaDesvios(_, _, _)
\* the sum over the amounts xs of (n * x - S)^2: n^2 times the sum of the
\* squared deviations from the mean S / n
SumaDesvios(xs, n, S) ==
    IF xs = <<>> THEN 0
    ELSE (n * Head(xs) - S) * (n * Head(xs) - S) + SumaDesvios(Tail(xs), n, S)

\* x > mean + k * s, with mean and s (the sample deviation, divisor n - 1) of
\* the expense amounts; false when s is undefined (n = 1)
SobreMediaMasDesvios(x, k) ==
    LET xs == Montos(FilasDeGasto)
        n == Len(xs)
        S == TotalGastos
    IN /\ n > 1
       /\ n * x > S
       /\ (n * x - S) * (n * x - S) * (n - 1) > k * k * SumaDesvios(xs, n, S)

\* C18: detectar_gastos_inusuales returns exactly the expense rows whose amount
\* is strictly above mean + umbral_desviacion * std, mean and sample std taken
\* over the expense amounts only; no income row is returned; a single expense,
\* or expenses that are all equal, give no row.
C18_SobreElUmbral ==
    resultado.op = "detectar_gastos_inusuales" =>
        /\ resultado.ret =
              SelectSeq(df_transacciones, LAMBDA r :
                  /\ r.tipo = "gasto"
                  /\ SobreMediaMasDesvios(r.monto, resultado.umbral_desviacion))
        /\ \A i \in DOMAIN resultado.ret : resultado.ret[i].tipo # "ingreso"
        /\ Len(FilasDeGasto) = 1 => resultado.ret = <<>>
        /\ (\A i, j \in DOMAIN FilasDeGasto :
               FilasDeGasto[i].monto = FilasDeGasto[j].monto)
           => resultado.ret = <<>>

\* expenses 10, 10, 1000 and an income of 1000 in between: the expense of
\* 1000 alone is returned
C18_Witness ==
    /\ resultado.op = "detectar_gastos_inusuales"
    /\ Montos(FilasDeGasto) = <<10, 10, 1000>>
    /\ \E i \in DOMAIN df_transacciones :
          df_transacciones[i].tipo = "ingreso" /\ df_transacciones[i].monto = 1000
    /\ Len(resultado.ret) = 1
    /\ resultado.ret[1].monto = 1000
    /\ resultado.ret[1].tipo = "gasto"

\* the row of the first expense of category c
PrimerGasto(c) ==
    CHOOSE i \in DOMAIN df_transacciones :
        /\ df_transacciones[i].tipo = "gasto" /\ df_transacciones[i].categoria = c
        /\ \A k \in 1..(i - 1) :
              ~ (df_transacciones[k].tipo = "gasto" /\ df_transacciones[k].categoria = c)

\* the place of category c in the alphabetical order
Alfabetico(c) == CHOOSE k \in DOMAIN CategoriasOrdenadas : CategoriasOrdenadas[k] = c

\* C19 as stated: categoria_mas_gasto is a category of maximal summed expense,
\* and of several such categories the one whose first expense row comes first
\* in the frame.
C19_PrimeraEncontrada ==
    (resultado.op = "analizar_transacciones" /\ TotalGastos > 0) =>
        /\ resultado.ret.categoria_mas_gasto \in CategoriasMaximas
        /\ \A c \in CategoriasMaximas :
              PrimerGasto(resultado.ret.categoria_mas_gasto) <= PrimerGasto(c)

\* C19 amended: categoria_mas_gasto is a category of maximal summed expense,
\* and of several such categories the alphabetically smallest, wherever its
\* rows stand in the frame.
C19_PrimeraAlfabetica ==
    (resultado.op = "analizar_transacciones" /\ TotalGastos > 0) =>
        /\ resultado.ret.categoria_mas_gasto \in CategoriasMaximas
        /\ \A c \in CategoriasMaximas :
              Alfabetico(resultado.ret.categoria_mas_gasto) <= Alfabetico(c)

\* a tie of two categories, the first row being of Transporte: Alimentacion
\* is reported
C19_Witness ==
    /\ resultado.op = "analizar_transacciones"
    /\ CategoriasMaximas = Categorias
    /\ df_transacciones[1].tipo = "gasto"
    /\ df_transacciones[1].categoria = "Transporte"
    /\ resultado.ret.categoria_mas_gasto = "Alimentacion"

\* the keys of the dict analizar_transacciones returns for a frame with rows
CamposDelAnalisis ==
    {"total_transacciones", "total_ingresos", "total_gastos", "balance",
     "promedio_gasto", "categoria_mas_gasto", "monto_categoria_max"}

\* C20: analizar_transacciones returns a dict of the same seven keys for an
\* empty frame as for one with rows; for an empty frame every number in it is
\* 0 and categoria_mas_gasto is None; for a frame with rows but no expense,
\* promedio_gasto and monto_categoria_max are 0 and categoria_mas_gasto is None.
C20_MismosCampos ==
    resultado.op = "analizar_transacciones" =>
        /\ DOMAIN resultado.ret = CamposDelAnalisis
        /\ df_transacciones = <<>> =>
              /\ resultado.ret.total_transacciones = 0
              /\ resultado.ret.total_ingresos = 0
              /\ resultado.ret.total_gastos = 0
              /\ resultado.ret.balance = 0
              /\ resultado.ret.promedio_gasto.num = 0
              /\ resultado.ret.monto_categoria_max = 0
              /\ resultado.ret.categoria_mas_gasto = "None"
        /\ (df_transacciones # <<>> /\ FilasDeGasto = <<>>) =>
              /\ resultado.ret.promedio_gasto.num = 0
              /\ resultado.ret.monto_categoria_max = 0
              /\ resultado.ret.categoria_mas_gasto = "None"

-----------------------------------------------------------------------------
(* Claims about the validator *)

\* the date texts of FechasValidar that name a day of the calendar
FechasCorrectas == {Texto("Y-m-d", 2024, 1, 15), Texto("Y-m-d", 2024, 2, 29)}

\* the number of rules the arguments of the last call violate
ReglasVioladas ==
    (IF resultado.monto <= 0 THEN 1 ELSE 0)
    + (IF Len(resultado.categoria) < 2 THEN 1 ELSE 0)
    + (IF Len(resultado.descripcion) < 3 THEN 1 ELSE 0)
    + (IF resultado.fecha \notin FechasCorrectas THEN 1 ELSE 0)
    + (IF resultado.tipo \notin {"ingreso", "gasto"} THEN 1 ELSE 0)

Contiene(errores, e) == \E i \in DOMAIN errores : errores[i] = e

Posicion(errores, e) == CHOOSE i \in DOMAIN errores : errores[i] = e

\* the messages, in the order of the rules
MensajesEnOrden ==
    << "El monto debe ser mayor a 0",
       "Categoria invalida",
       "Descripcion muy corta (minimo 3 caracteres)",
       "Fecha invalida (formato: YYYY-MM-DD)",
       "Tipo debe ser 'ingreso' o 'gasto'" >>

\* C9: validar_transaccion reports every violated rule: errores holds one
\* entry per violated rule, in the order amount, category, description, date,
\* type, and valido is true iff errores is empty; -5, "Food", "lunch",
\* "2024-01-15", "gasto" gives valido false and the one error of the amount.
C9_TodasLasReglas ==
    resultado.op = "validar_transaccion" =>
        LET e == resultado.ret.errores
        IN /\ Len(e) = ReglasVioladas
           /\ Contiene(e, MensajesEnOrden[1]) <=> resultado.monto <= 0
           /\ Contiene(e, MensajesEnOrden[2]) <=> Len(resultado.categoria) < 2
           /\ Contiene(e, MensajesEnOrden[3]) <=> Len(resultado.descripcion) < 3
           /\ Contiene(e, MensajesEnOrden[4]) <=> resultado.fecha \notin FechasCorrectas
           /\ Contiene(e, MensajesEnOrden[5]) <=> resultado.tipo \notin {"ingreso", "gasto"}
           /\ \A i, j \in DOMAIN MensajesEnOrden :
                 (i < j /\ Contiene(e, MensajesEnOrden[i]) /\ Contiene(e, MensajesEnOrden[j]))
                     => Posicion(e, MensajesEnOrden[i]) < Posicion(e, MensajesEnOrden[j])
           /\ resultado.ret.valido <=> (e = <<>>)
           /\ (/\ resultado.monto = 0 - 5
               /\ resultado.categoria = <<"F", "o", "o", "d">>
               /\ resultado.descripcion = <<"l", "u", "n", "c", "h">>
               /\ resultado.fecha = Texto("Y-m-d", 2024, 1, 15)
               /\ resultado.tipo = "gasto")
              => (~ resultado.ret.valido /\ e = <<MensajesEnOrden[1]>>)

\* a call that violates all five rules and gets five errors
C9_Witness ==
    /\ resultado.op = "validar_transaccion"
    /\ ReglasVioladas = 5
    /\ Len(resultado.ret.errores) = 5
    /\ ~ resultado.ret.valido

-----------------------------------------------------------------------------
(* Claims about the frames the functions are handed *)

\* C14: no call of analizar_transacciones, detectar_gastos_inusuales,
\* calcular_tendencia, verificar_presupuestos, detectar_patrones_inusuales or
\* get_analisis_ia changes a frame it is handed: the rows, their values and the
\* form in which each date is held are after the call what they were before.
C14_SinEfectos ==
    [][/\ df_transacciones' = df_transacciones
       /\ df_presupuestos' = df_presupuestos]_vars

-----------------------------------------------------------------------------
(* Claims about a budget ceiling of 0, under SpecLimites *)

\* C15: for a category with expenses whose budget ceiling is 0,
\* verificar_presupuestos returns no alert for that budget row, and
\* get_analisis_ia returns, without a division by zero, with no alert for the
\* category.
C15_LimiteCero ==
    /\ resultado.op = "verificar_presupuestos" =>
          \A i \in DOMAIN df_presupuestos :
              LET p == df_presupuestos[i]
              IN (/\ p.usuario_id = resultado.usuario_id
                  /\ p.monto_maximo = 0
                  /\ GastoUsuario(resultado.usuario_id, p.categoria) > 0)
                 => AlertasDe(p.categoria, 0) = <<>>
    /\ resultado.op = "get_analisis_ia" =>
          \A c \in Categorias :
              (HayGasto(c) /\ EnDict(df_presupuestos, c)
                  /\ DictValor(df_presupuestos, c) = 0)
              => /\ resultado.excepcion = "ninguna"
                 /\ AlertasAsesorDe(c) = <<>>

-----------------------------------------------------------------------------
(* Claims about the dashboard, under SpecDashboard *)

\* the rows of the table transacciones of the user of the last page, dated on
\* the day `dias` days before the day of the page or later, in table order
TransaccionesGuardadas ==
    SelectSeq(tabla_transacciones, LAMBDA r :
        /\ r.usuario_id = resultado.usuario_id
        /\ r.fecha.dia + resultado.dias >= resultado.ahora \div 2)

\* the rows of the table presupuestos of that user, in table order
PresupuestosGuardados ==
    SelectSeq(tabla_presupuestos, LAMBDA p : p.usuario_id = resultado.usuario_id)

-----------------------------------------------------------------------------
(* Claims about the alerts, under SpecAlertas *)

\* the alert of table t with the id given, if there is one
ConEseId(t, id) == {t[i] : i \in {j \in DOMAIN t : t[j].id = id}}

\* C17: an alert that crear_alerta stores is unread; a step changes nothing of
\* an alert that is in the table before and after it except leida, which only
\* marcar_leida (from the alerts page or from the dashboard) changes, and only
\* from false to true; no alert enters the table but by crear_alerta.
C17_CicloDeAlerta ==
    [][\A i \in DOMAIN tabla_alertas' :
          LET nueva == tabla_alertas'[i]
              antes == ConEseId(tabla_alertas, nueva.id)
          IN /\ antes = {} =>
                   /\ resultado'.op = "crear_alerta"
                   /\ nueva.leida = FALSE
             /\ \A a \in antes :
                   /\ nueva.usuario_id = a.usuario_id
                   /\ nueva.tipo = a.tipo
                   /\ nueva.mensaje = a.mensaje
                   /\ nueva.severidad = a.severidad
                   /\ a.leida => nueva.leida
                   /\ nueva.leida # a.leida =>
                         resultado'.op \in {"marcar_leida", "pagina_dashboard"}]_vars

\* two alerts of a user, the older marked on the alerts page, the newer still
\* unread
C17_Witness ==
    /\ resultado.op = "marcar_leida"
    /\ Len(tabla_alertas) = 2
    /\ tabla_alertas[1].leida = TRUE
    /\ tabla_alertas[2].leida = FALSE
    /\ tabla_alertas[1].usuario_id = tabla_alertas[2].usuario_id

-----------------------------------------------------------------------------
(* Claims about the user maintainer, under SpecUsuarios *)

\* C28: a press of Eliminar that calls eliminar_usuario for a user comes right
\* after a press of Eliminar for the same user that did not call it: no other
\* press, for another user or of Actualizar, lies between the two.
C28_DosPulsaciones ==
    [][(resultado'.op = "form_eliminar" /\ resultado'.invocado) =>
          /\ resultado.op = "form_eliminar"
          /\ ~ resultado.invocado
          /\ resultado.usuario_id = resultado'.usuario_id]_vars

\* no table holds a row that refers to user u
SinFilasDe(u) ==
    /\ SinUsuario(tabla_presupuestos, u) = tabla_presupuestos
    /\ SinUsuario(tabla_transacciones, u) = tabla_transacciones
    /\ SinUsuario(tabla_alertas, u) = tabla_alertas
    /\ \A t \in OtrasTablas : u \notin otras_tablas[t]

\* the last step was a call of eliminar_usuario(u), made directly or by the form
EliminadoConLlamada(u) ==
    /\ \/ resultado.op = "eliminar_usuario"
       \/ resultado.op = "form_eliminar" /\ resultado.invocado
    /\ resultado.usuario_id = u

\* C29: a call of eliminar_usuario(u) that returns True leaves no row that
\* refers to u in any table, and not the row of u; a call in which a delete
\* raises returns False and leaves the row of u where it was; and whenever
\* the row of u goes, the rows that refer to u in presupuestos, transacciones,
\* alertas, analisis_financiero, inversiones and suscripciones have gone
\* before it.
C29_UsuarioAlFinal ==
    [][\A u \in Usuarios :
          EliminadoConLlamada(u)' =>
              /\ resultado'.ret => (SinFilasDe(u)' /\ u \notin tabla_usuarios')
              /\ resultado'.falla # 0 =>
                    /\ ~ resultado'.ret
                    /\ u \in tabla_usuarios => u \in tabla_usuarios'
              /\ (u \in tabla_usuarios /\ u \notin tabla_usuarios') => SinFilasDe(u)']_vars

\* the fifth delete raised: the alerts of u1 are gone, its investments and
\* its row are still there, and the call returned False
C29_Witness ==
    /\ EliminadoConLlamada("u1")
    /\ resultado.falla = 5
    /\ ~ resultado.ret
    /\ "u1" \in tabla_usuarios
    /\ SinUsuario(tabla_alertas, "u1") = tabla_alertas
    /\ "u1" \in otras_tablas["inversiones"]

-----------------------------------------------------------------------------
(* Claims about the alerts of the dashboard, under SpecAvisos *)

\* the places in the table of the unread alerts of user u
NoLeidas(u) ==
    {i \in DOMAIN tabla_alertas :
        tabla_alertas[i].usuario_id = u /\ ~ tabla_alertas[i].leida}

\* C27: a run of the dashboard shows unread alerts of its user, three of them
\* or all if there are fewer, and marks as read the alerts it shows and no
\* other: the alerts of other users and the ones not shown stay as they were.
\* Showing some whenever some are unread is what lets repeated runs reach
\* every unread alert of the user.
C27_MuestraYMarca ==
    [][resultado'.op = "pagina_dashboard" =>
          LET u == resultado'.usuario_id
              mostradas == {resultado'.mostradas[k].id : k \in DOMAIN resultado'.mostradas}
              n == Cardinality(NoLeidas(u))
          IN /\ Cardinality(mostradas) = Len(resultado'.mostradas)
             /\ mostradas \subseteq {tabla_alertas[i].id : i \in NoLeidas(u)}
             /\ Cardinality(mostradas) = IF n < 3 THEN n ELSE 3
             /\ DOMAIN tabla_alertas' = DOMAIN tabla_alertas
             /\ \A i \in DOMAIN tabla_alertas :
                   tabla_alertas'[i] =
                       IF tabla_alertas[i].id \in mostradas
                       THEN [tabla_alertas[i] EXCEPT !.leida = TRUE]
                       ELSE tabla_alertas[i]]_vars

-----------------------------------------------------------------------------
(* Claims about the chat, under SpecChat *)

\* the list begins with the greeting, which it holds once, its roles
\* alternate from assistant to assistant, and its length is odd
ListaBienFormada(lista) ==
    /\ lista[1] = Saludo
    /\ \A i \in 2..Len(lista) : lista[i] # Saludo
    /\ Len(lista) % 2 = 1
    /\ \A i \in DOMAIN lista :
          lista[i].role = IF i % 2 = 1 THEN "assistant" ELSE "user"

\* lista is the beginning of larga
Comienzo(lista, larga) ==
    /\ Len(lista) <= Len(larga)
    /\ SubSeq(larga, 1, Len(lista)) = lista

\* C30: the list of messages, once made, begins with the one greeting of the
\* assistant and is only appended to; a run in which a text that is not blank
\* is sent appends the message of the user and then one reply of the
\* assistant, whatever became of the request; any other run, a blank text sent
\* included, appends nothing; so the roles alternate from assistant to
\* assistant and the length is odd.
C30_ChatAlterno ==
    [][/\ mensajes' # <<>> => ListaBienFormada(mensajes')
       /\ mensajes # <<>> => Comienzo(mensajes, mensajes')
       /\ resultado'.op = "pagina_dashboard" =>
             LET antes == IF mensajes = <<>> THEN <<Saludo>> ELSE mensajes
                 n == Len(antes)
             IN IF resultado'.enviar /\ Strip(resultado'.user_input) # <<>>
                THEN /\ Len(mensajes') = n + 2
                     /\ Comienzo(antes, mensajes')
                     /\ mensajes'[n + 1] =
                           [role |-> "user", content |-> Strip(resultado'.user_input)]
                     /\ mensajes'[n + 2].role = "assistant"
                ELSE mensajes' = antes
       /\ resultado'.op # "pagina_dashboard" => mensajes' = mensajes]_vars

\* a text sent whose request timed out, and a blank text sent after it: the
\* greeting, the message without its blanks and the reply
C30_Witness ==
    /\ resultado.op = "pagina_dashboard"
    /\ resultado.enviar
    /\ resultado.user_input = <<Espacio>>
    /\ Len(mensajes) = 3
    /\ mensajes[2] = [role |-> "user", content |-> <<"a">>]
    /\ mensajes[3] = [role |-> "assistant", content |-> Respuesta("Timeout")]

====
